---- MODULE Spec2Model ----
(***************************************************************************)
(* Retail Retention & Revenue Lab preprocessing                            *)
(* (src/scripts/retail_preprocess.py): the CSV fold into per-invoice       *)
(* aggregates, the per-variant cohort / retention computation and the      *)
(* driver that writes the eight variant files.                             *)
(*                                                                         *)
(* Representation.                                                         *)
(*  - Optional[T]: None is << >>, a present value x is << x >>.            *)
(*  - A float is an integer count of 2^-15 (every sum and product of the   *)
(*    model is a dyadic rational of small magnitude, so the double         *)
(*    arithmetic of the program is exact on it).  Quotients are not: they  *)
(*    are computed in binary64, section "binary64 arithmetic".             *)
(*    Quantities are plain integers.                                       *)
(*  - A numeric cell of the CSV is [kind, val]: "empty" (blank), "word"    *)
(*    (float() raises ValueError), "num" (float() returns val), "negzero"  *)
(*    (the text -0: float() returns -0.0, the float NegZero) or "inf"      *)
(*    (the text inf: float() returns the infinity).  The model holds the   *)
(*    infinity only as a quantity text, where int() raises OverflowError.  *)
(*  - A date cell of the CSV is [form, t1, t2, t3]: "empty", "junk",       *)
(*    "slash" (the text t1/t2/t3 HH:MM) or "iso" (the text t1-t2-t3        *)
(*    HH:MM:SS).  All texts carry the same time of day.                    *)
(*  - A datetime is [year, month, day].                                    *)
(*  - A percentage rounded to one decimal is an integer count of tenths    *)
(*    (1000 is 100.0).                                                     *)
(*  - The command line is the sequence of its strings; whether the path    *)
(*    that --input names exists is held by csv_exists.                     *)
(*  - A dict is a sequence of its items in insertion order.                *)
(***************************************************************************)
EXTENDS Integers, Sequences, FiniteSets, TLC

VARIABLES
    pc,               \* position of main: "args", "start", "read", "variants", "done"
    csv_exists,       \* os.path.exists(csv_path)
    argv,             \* the command line: the strings main receives
    args_max_offsets, \* args.max_offsets: None, an int or the empty list
    nread,            \* rows the csv reader has yielded so far
    raw,              \* RawStats
    parse,            \* ParseStats
    seen_row_hashes,  \* set of row-key hashes
    invoices,         \* Dict[str, InvoiceAgg], items in insertion order
    vi,               \* index of the next variant of main's loop (1..8)
    written,          \* main's counter of written variants
    files,            \* names of the files written by this run
    exit_code,        \* None while running, then the process exit status
    data,             \* None, or the outcome of the latest build_variant call
    lines,            \* history: the accepted lines, in stream order
    seg,              \* None, or the cut points and the customer being scored
    warned            \* the parse-ratio WARNING was printed to stderr

vars == << pc, csv_exists, argv, args_max_offsets, nread, raw, parse, seen_row_hashes,
           invoices, vi, written, files, exit_code, data, lines, seg, warned >>

----------------------------------------------------------------------------
(* Bounds *)

MaxRows == 3

----------------------------------------------------------------------------
(* Generic helpers *)

None == << >>

Some(x) == << x >>

IsNone(o) == o = << >>

TheVal(o) == o[1]

Unit == 2^15

Money(n) == n * Unit

Max2(a, b) == IF a >= b THEN a ELSE b

Min2(a, b) == IF a <= b THEN a ELSE b

Abs(x) == IF x < 0 THEN -x ELSE x

RECURSIVE SumSeq(_)
SumSeq(s) == IF s = << >> THEN 0 ELSE Head(s) + SumSeq(Tail(s))

SetMin(S) == CHOOSE y \in S : \A z \in S : y <= z

SetMax(S) == CHOOSE y \in S : \A z \in S : y >= z

\* << quotient, remainder >> of n * 10^k divided by d (n >= 0, d > 0), by long
\* division so that no intermediate product leaves the machine integers
RECURSIVE ScaledDiv(_, _, _)
ScaledDiv(n, d, k) ==
    IF k = 0 THEN << n \div d, n % d >>
    ELSE LET p == ScaledDiv(n, d, k - 1)
         IN  << p[1] * 10 + ((p[2] * 10) \div d), (p[2] * 10) % d >>

\* n * 10^k / d rounded half-even to an integer
RoundScaled(n, d, k) ==
    LET p == ScaledDiv(n, d, k)
        q == p[1]
        r == p[2]
    IN  IF 2 * r < d THEN q
        ELSE IF 2 * r > d THEN q + 1
        ELSE IF q % 2 = 0 THEN q ELSE q + 1

\* A float that the reader parses from a cell is the count of 2^-15 it is
\* worth, an integer; the one float that no count tells from another is
\* -0.0, the zero with the sign bit set that float("-0") gives
NegZero == "-0.0"

\* the number a float is worth: -0.0 == 0
Numeric(v) == IF ToString(v) = ToString(NegZero) THEN 0 ELSE v

\* int(x) of a float x: truncation toward zero
Trunc(v) == IF Numeric(v) >= 0 THEN Numeric(v) \div Unit ELSE -((-v) \div Unit)

----------------------------------------------------------------------------
(* binary64 arithmetic *)

\* Python floats are IEEE 754 binary64.  A positive float is the record
\* [m, e] of value m * 2^e, where m is a natural number of 53 binary digits.
\* A natural number too large for a machine integer is the sequence of its
\* digits in base 2^15, least significant first, with no zero at the top end.
MantissaBits == 53

LimbBits == 15

Limb == 2 ^ LimbBits

RECURSIVE Limbs(_)
Limbs(n) == IF n = 0 THEN << >> ELSE << n % Limb >> \o Limbs(n \div Limb)

RECURSIVE IntOf(_)
IntOf(x) == IF x = << >> THEN 0 ELSE Head(x) + Limb * IntOf(Tail(x))

RECURSIVE Norm(_)
Norm(x) ==
    IF x = << >> THEN << >>
    ELSE IF x[Len(x)] = 0 THEN Norm(SubSeq(x, 1, Len(x) - 1))
    ELSE x

RECURSIVE AddNat(_, _, _)
AddNat(x, y, carry) ==
    IF x = << >> /\ y = << >>
    THEN IF carry = 1 THEN << 1 >> ELSE << >>
    ELSE LET a == IF x = << >> THEN 0 ELSE Head(x)
             b == IF y = << >> THEN 0 ELSE Head(y)
             t == a + b + carry
         IN  << t % Limb >> \o AddNat(IF x = << >> THEN << >> ELSE Tail(x),
                                      IF y = << >> THEN << >> ELSE Tail(y),
                                      t \div Limb)

\* x * q + carry for natural numbers 1 <= q <= Limb and carry < Limb
RECURSIVE MulNat(_, _, _)
MulNat(x, q, carry) ==
    IF x = << >> THEN Limbs(carry)
    ELSE LET t == Head(x) * q + carry
         IN  << t % Limb >> \o MulNat(Tail(x), q, t \div Limb)

\* the number of binary digits of x
BitLen(x) ==
    IF x = << >> THEN 0
    ELSE LimbBits * (Len(x) - 1)
         + (CHOOSE k \in 1..LimbBits : 2 ^ (k - 1) <= x[Len(x)] /\ x[Len(x)] < 2 ^ k)

\* the binary digit of weight 2^(i - 1)
Bit(x, i) ==
    LET at == ((i - 1) \div LimbBits) + 1
    IN  IF i < 1 \/ at > Len(x) THEN 0
        ELSE (x[at] \div (2 ^ ((i - 1) % LimbBits))) % 2

\* one of the k lowest binary digits of x is 1
LowBits(x, k) ==
    LET full == k \div LimbBits
    IN  \/ \E i \in 1..Min2(full, Len(x)) : x[i] # 0
        \/ (full < Len(x)) /\ (x[full + 1] % (2 ^ (k % LimbBits)) # 0)

\* x * 2^n
ShiftLeft(x, n) ==
    IF x = << >> THEN << >>
    ELSE [i \in 1..(n \div LimbBits) |-> 0] \o MulNat(x, 2 ^ (n % LimbBits), 0)

\* x \div 2^n
ShiftRight(x, n) ==
    LET drop == n \div LimbBits
        j == n % LimbBits
        y == IF drop >= Len(x) THEN << >> ELSE SubSeq(x, drop + 1, Len(x))
    IN  Norm([i \in 1..Len(y) |->
                 (y[i] \div (2 ^ j))
                 + (IF i < Len(y) THEN (y[i + 1] % (2 ^ j)) * (2 ^ (LimbBits - j)) ELSE 0)])

\* the float nearest to x * 2^e, ties to the even mantissa
RoundNearestEven(x, e) ==
    LET k == BitLen(x) - MantissaBits
    IN  IF k <= 0
        THEN [m |-> ShiftLeft(x, -k), e |-> e + k]
        ELSE LET keep == ShiftRight(x, k)
                 half == Bit(x, k) = 1
                 sticky == LowBits(x, k - 1)
                 up == half /\ (sticky \/ Bit(keep, 1) = 1)
                 kept == IF up THEN AddNat(keep, << 1 >>, 0) ELSE keep
             IN  IF BitLen(kept) > MantissaBits
                 THEN [m |-> ShiftRight(kept, 1), e |-> e + k + 1]
                 ELSE [m |-> kept, e |-> e + k]

\* a + b of two positive floats
float_add(a, b) ==
    LET lo == IF a.e < b.e THEN a.e ELSE b.e
    IN  RoundNearestEven(AddNat(ShiftLeft(a.m, a.e - lo), ShiftLeft(b.m, b.e - lo), 0), lo)

\* float(qty) * unit_price for a natural number qty < 2^15 and a positive
\* float (lines 291, 432, 445, 529); float(qty) is exact
float_mul(qty, unit_price) == RoundNearestEven(MulNat(unit_price.m, qty, 0), unit_price.e)

\* the number of binary digits by which a remainder below d < 2^30 can be
\* shifted within the machine integers of the model checker
Chunk(d) == IF d <= 2 ^ 16 THEN LimbBits ELSE IF d <= 2 ^ 23 THEN 8 ELSE 1

\* long division of r / d (r < d), k binary digits at a time: the next `left`
\* binary digits of the quotient, appended to acc, and the remainder
RECURSIVE Develop(_, _, _, _, _)
Develop(r, d, k, left, acc) ==
    IF left = 0 THEN << acc, r >>
    ELSE LET j == Min2(k, left)
         IN  Develop((r * (2 ^ j)) % d, d, k, left - j,
                     acc * (2 ^ j) + ((r * (2 ^ j)) \div d))

\* long division: q is the integer part of n * 2^shifted / d and r what is
\* left of it; one more digit of base 2^15 is developed at a time until the
\* division comes out even or the quotient has five digits, which are more
\* than MantissaBits + 2 binary digits
RECURSIVE Quotient(_, _, _, _)
Quotient(q, r, d, shifted) ==
    IF r = 0 \/ Len(q) >= 5
    THEN [q |-> q, rem |-> r, shifted |-> shifted]
    ELSE LET next == Develop(r, d, Chunk(d), LimbBits, 0)
         IN  Quotient(IF q = << >> /\ next[1] = 0 THEN << >> ELSE << next[1] >> \o q,
                      next[2], d, shifted + LimbBits)

\* n / d of two positive floats whose values are in the ratio of the natural
\* numbers n : d, d < 2^30 (true division, lines 432, 445, 519, 520): the
\* float nearest to the quotient.  A remainder left over by the long division
\* stands for binary digits below the developed ones that are not all 0, as
\* does a 1 in the lowest developed place.
float_div(n, d) ==
    LET s == Quotient(Limbs(n \div d), n % d, d, 0)
    IN  IF s.rem = 0
        THEN RoundNearestEven(s.q, -s.shifted)
        ELSE RoundNearestEven([s.q EXCEPT ![1] = @ + 1 - (@ % 2)], -s.shifted)

\* x scaled by a power of two
Scale(x, k) == [m |-> x.m, e |-> x.e + k]

\* int(x) of a positive float
Whole(x) ==
    IF x.e >= 0 THEN IntOf(ShiftLeft(x.m, x.e)) ELSE IntOf(ShiftRight(x.m, -x.e))

\* round(x, ndigits) of a positive float x, as the count of 10^-ndigits:
\* float.__round__ takes the decimal of ndigits places nearest to the exact
\* binary value of x, and the even one when x is exactly half way
round(x, ndigits) ==
    LET p == [m |-> MulNat(x.m, 10 ^ ndigits, 0), e |-> x.e]
        whole == Whole(p)
        half == Bit(p.m, -p.e) = 1
        sticky == LowBits(p.m, -p.e - 1)
    IN  IF half /\ (sticky \/ whole % 2 = 1) THEN whole + 1 ELSE whole

----------------------------------------------------------------------------
(* Record Parser *)

\* the outcome of a call that ends in an exception no handler catches
OverflowError == << "OverflowError", "cannot convert float infinity to integer" >>

Raises(o) == o = OverflowError

\* float("inf")
Infinity == "inf"

\* lines 104-111: only ValueError is caught, int(inf) raises OverflowError
parse_int(cell) ==
    IF cell.kind = "empty" THEN None
    ELSE IF cell.kind = "num" THEN Some(Trunc(cell.val))
    ELSE IF cell.kind = "negzero" THEN Some(Trunc(NegZero))
    ELSE IF cell.kind = "inf" THEN OverflowError
    ELSE None

parse_float(cell) ==
    IF cell.kind = "empty" THEN None
    ELSE IF cell.kind = "num" THEN Some(cell.val)
    ELSE IF cell.kind = "negzero" THEN Some(NegZero)
    ELSE IF cell.kind = "inf" THEN Some(Infinity)
    ELSE None

\* datetime's proleptic Gregorian calendar
IsLeap(y) == (y % 4 = 0) /\ ((y % 100 # 0) \/ (y % 400 = 0))

DaysInMonth(y, m) ==
    IF m = 2 THEN (IF IsLeap(y) THEN 29 ELSE 28)
    ELSE IF m \in {4, 6, 9, 11} THEN 30 ELSE 31

RECURSIVE DaysBeforeMonth(_, _)
DaysBeforeMonth(y, m) ==
    IF m <= 1 THEN 0 ELSE DaysBeforeMonth(y, m - 1) + DaysInMonth(y, m - 1)

DaysBeforeYear(y) ==
    LET z == y - 1 IN z * 365 + (z \div 4) - (z \div 100) + (z \div 400)

Ordinal(d) == DaysBeforeYear(d.year) + DaysBeforeMonth(d.year, d.month) + d.day

\* strptime accepts month/day numbers only when they name a real day
ValidDate(y, m, d) ==
    /\ y >= 1 /\ y <= 9999
    /\ m >= 1 /\ m <= 12
    /\ d >= 1 /\ d <= DaysInMonth(y, m)

MkDate(y, m, d) == [year |-> y, month |-> m, day |-> d]

TryDate(y, m, d) == IF ValidDate(y, m, d) THEN Some(MkDate(y, m, d)) ELSE None

parse_invoice_date(cell) ==
    IF cell.form = "empty" THEN None
    ELSE IF cell.form = "slash" THEN
        LET a == cell.t1
            b == cell.t2
            prefer_dayfirst == (a > 12) /\ (b <= 12)
            monthfirst == TryDate(cell.t3, a, b)
            dayfirst == TryDate(cell.t3, b, a)
            first == IF prefer_dayfirst THEN dayfirst ELSE monthfirst
            second == IF prefer_dayfirst THEN monthfirst ELSE dayfirst
        IN  IF ~IsNone(first) THEN first ELSE second
    ELSE IF cell.form = "iso" THEN TryDate(cell.t1, cell.t2, cell.t3)
    ELSE None

\* a text is the sequence of its tokens; ".0" is a token of its own and
\* str.isdigit holds of a token made of decimal digits only: the ten digits
\* and the two customer numbers written as one token
DigitTokens ==
    {"17850", "13047", "0", "1", "2", "3", "4", "5", "6", "7", "8", "9"}

IsDigit(text) == (text # << >>) /\ (\A i \in 1..Len(text) : text[i] \in DigitTokens)

normalize_customer_id(text) ==
    IF text = << >> THEN None
    ELSE IF text[Len(text)] = ".0" /\ IsDigit(SubSeq(text, 1, Len(text) - 1))
    THEN Some(SubSeq(text, 1, Len(text) - 1))
    ELSE Some(text)

month_key(d) == d.year * 100 + d.month

IsoWeek1Monday(y) ==
    LET firstday == DaysBeforeYear(y) + 1
        firstweekday == (firstday + 6) % 7
        week1monday == firstday - firstweekday
    IN  IF firstweekday > 3 THEN week1monday + 7 ELSE week1monday

iso_week_key(d) ==
    LET today == Ordinal(d)
        w0 == (today - IsoWeek1Monday(d.year)) \div 7
    IN  IF w0 < 0
        THEN (d.year - 1) * 100 + ((today - IsoWeek1Monday(d.year - 1)) \div 7) + 1
        ELSE IF w0 >= 52 /\ today >= IsoWeek1Monday(d.year + 1)
        THEN (d.year + 1) * 100 + 1
        ELSE d.year * 100 + w0 + 1

DateLt(d, e) == Ordinal(d) < Ordinal(e)

----------------------------------------------------------------------------
(* Input rows: what csv.DictReader yields after the strip() of each cell *)

NumCell(v) == [kind |-> "num", val |-> v]

WordCell == [kind |-> "word", val |-> 0]

InfCell == [kind |-> "inf", val |-> 0]

\* the cell "-0", which float() reads as -0.0
NegZeroCell == [kind |-> "negzero", val |-> 0]

IsoCell(y, m, d) == [form |-> "iso", t1 |-> y, t2 |-> m, t3 |-> d]

SlashCell(a, b, y) == [form |-> "slash", t1 |-> a, t2 |-> b, t3 |-> y]

JunkCell == [form |-> "junk", t1 |-> 0, t2 |-> 0, t3 |-> 0]

BlankDateCell == [form |-> "empty", t1 |-> 0, t2 |-> 0, t3 |-> 0]

Row(inv, sku, q, d, u, c, k) ==
    [Invoice |-> inv, StockCode |-> sku, Quantity |-> q, InvoiceDate |-> d,
     UnitPrice |-> u, CustomerID |-> c, Country |-> k]

CustA == << "17850" >>

CustB == << "13047" >>

RowSet ==
    { Row(<<"1">>, "S1", NumCell(Money(1)), IsoCell(2023, 1, 10), NumCell(Money(50)),
          CustA \o <<".0">>, "UK"),
      Row(<<"2">>, "S1", NumCell(Money(1)), SlashCell(15, 3, 2023), NumCell(Money(30)),
          CustA, "UK"),
      Row(<<"3">>, "S1", NumCell(Money(1) + Unit \div 2), SlashCell(2, 10, 2023),
          NumCell(Money(50)), CustB, "France"),
      Row(<<"4">>, "S1", NumCell(Money(1)), IsoCell(2023, 1, 10), NumCell(Money(-50)),
          CustB, "France"),
      Row(<<"C", "5">>, "S1", NumCell(Money(-1)), IsoCell(2023, 1, 20), NumCell(Money(50)),
          CustA, "UK"),
      Row(<<"6">>, "S1", NumCell(Money(1)), SlashCell(2, 10, 2023), NumCell(Money(30)),
          << >>, ""),
      Row(<<"1">>, "S1", NumCell(Money(1)), IsoCell(2023, 1, 10), NumCell(Money(50) + 1),
          CustA \o <<".0">>, "UK"),
      Row(<<"1">>, "S2", NumCell(Money(-1)), IsoCell(2023, 1, 20), NumCell(Money(30)),
          << >>, ""),
      Row(<<"7">>, "S1", WordCell, JunkCell, NumCell(Money(50)), CustA, "UK"),
      Row(<<"7">>, "S1", NumCell(Money(1)), JunkCell, NumCell(Money(50)), CustA, "UK"),
      Row(<< >>, "S1", NumCell(Money(1)), IsoCell(2023, 1, 10), NumCell(Money(50)),
          CustA, "UK"),
      Row(<<"7">>, "S1", InfCell, IsoCell(2023, 1, 10), NumCell(Money(50)), CustA, "UK"),
      Row(<<"8">>, "S1", NumCell(Money(1)), IsoCell(2023, 1, 20), NumCell(Money(30)),
          <<"anon:", "6">>, "UK"),
      Row(<<"7">>, "S1", NumCell(Money(1)), BlankDateCell, NumCell(Money(50)), CustA, "UK") }

----------------------------------------------------------------------------
(* Invoice Aggregator *)

StartsWithC(invoice) == (invoice # << >>) /\ (invoice[1] = "C")

\* f"{unit_price:.4f}": the sign and the count of 0.0001, correctly rounded;
\* -0.0 is written "-0.0000", as is a negative price that rounds to zero
Fmt4(u) ==
    IF ToString(u) = ToString(NegZero) THEN << TRUE, 0 >>
    ELSE << u < 0, RoundScaled(Abs(u), Unit, 4) >>

\* blake2b of the key string is taken to be injective on the key strings
\* of the model; no field of the model holds a "|"
_stable_row_key_hash(invoice, stock_code, customer_id, qty, unit_price) ==
    << invoice, stock_code, IF IsNone(customer_id) THEN << >> ELSE TheVal(customer_id),
       qty, Fmt4(unit_price) >>

RawStats0 ==
    [total_rows |-> 0, missing_customer_rows |-> 0, qty_le_0_rows |-> 0,
     unitprice_le_0_rows |-> 0, cancellations_rows |-> 0, duplicate_rows |-> 0,
     min_date |-> None, max_date |-> None]

ParseStats0 ==
    [raw_rows_seen |-> 0, parsed_rows |-> 0, skipped_bad_numeric |-> 0,
     skipped_bad_date |-> 0]

update_date_range(r, d) ==
    [r EXCEPT
        !.min_date = IF IsNone(@) \/ DateLt(d, TheVal(@)) THEN Some(d) ELSE @,
        !.max_date = IF IsNone(@) \/ DateLt(TheVal(@), d) THEN Some(d) ELSE @]

Bump(b) == IF b THEN 1 ELSE 0

\* position of the invoice id in the dict, 0 when it is not a key
IndexOf(invs, invoice) ==
    IF \E i \in 1..Len(invs) : invs[i].invoice = invoice
    THEN CHOOSE i \in 1..Len(invs) : invs[i].invoice = invoice
    ELSE 0

\* RawAfter testing the row key after it was added to the set of seen keys
RawAfter_TestAfterAdd(r, seen, invoice, customer_id, qty, unit_price, invoice_date, h) ==
    [update_date_range(r, invoice_date) EXCEPT
        !.total_rows = @ + 1,
        !.missing_customer_rows = @ + Bump(IsNone(customer_id)),
        !.qty_le_0_rows = @ + Bump(qty <= 0),
        !.unitprice_le_0_rows = @ + Bump(Numeric(unit_price) <= 0),
        !.cancellations_rows = @ + Bump(StartsWithC(invoice)),
        !.duplicate_rows = @ + Bump(h \in (seen \cup {h}))]

\* the update of RawStats for one accepted line (lines 274-289)
RawAfter(r, seen, invoice, customer_id, qty, unit_price, invoice_date, h) ==
    [update_date_range(r, invoice_date) EXCEPT
        !.total_rows = @ + 1,
        !.missing_customer_rows = @ + Bump(IsNone(customer_id)),
        !.qty_le_0_rows = @ + Bump(qty <= 0),
        !.unitprice_le_0_rows = @ + Bump(Numeric(unit_price) <= 0),
        !.cancellations_rows = @ + Bump(StartsWithC(invoice)),
        !.duplicate_rows = @ + Bump(h \in seen)]

\* FoldLine with the line count of an existing invoice left as it was
FoldLine_NoCount(invs, invoice, customer_id, country, invoice_date, qty, unit_price) ==
    LET i == IndexOf(invs, invoice)
    IN  IF i # 0
        THEN [invs EXCEPT ![i] = [@ EXCEPT !.revenue = @ + qty * Numeric(unit_price)]]
        ELSE Append(invs,
                [invoice |-> invoice, customer_id |-> customer_id, country |-> country,
                 invoice_date |-> invoice_date, revenue |-> qty * Numeric(unit_price),
                 is_return |-> StartsWithC(invoice) \/ (qty < 0), line_count |-> 1])

\* FoldLine with the return flag of an existing invoice set from the latest
\* line alone
FoldLine_ReturnNotSticky(invs, invoice, customer_id, country, invoice_date, qty, unit_price) ==
    LET line_revenue == qty * Numeric(unit_price)
        is_return == StartsWithC(invoice) \/ (qty < 0)
        i == IndexOf(invs, invoice)
    IN  IF i # 0
        THEN [invs EXCEPT ![i] =
                [@ EXCEPT
                    !.revenue = @ + line_revenue,
                    !.line_count = @ + 1,
                    !.is_return = is_return,
                    !.customer_id = IF IsNone(@) /\ ~IsNone(customer_id)
                                    THEN customer_id ELSE @,
                    !.country = IF @ = "Unknown" /\ country # "Unknown"
                                THEN country ELSE @,
                    !.invoice_date = IF DateLt(@, invoice_date)
                                     THEN invoice_date ELSE @]]
        ELSE Append(invs,
                [invoice |-> invoice, customer_id |-> customer_id, country |-> country,
                 invoice_date |-> invoice_date, revenue |-> line_revenue,
                 is_return |-> is_return, line_count |-> 1])

\* the fold of one accepted line into the invoice map (lines 291-314)
FoldLine(invs, invoice, customer_id, country, invoice_date, qty, unit_price) ==
    LET line_revenue == qty * Numeric(unit_price)
        is_return == StartsWithC(invoice) \/ (qty < 0)
        i == IndexOf(invs, invoice)
    IN  IF i # 0
        THEN [invs EXCEPT ![i] =
                [@ EXCEPT
                    !.revenue = @ + line_revenue,
                    !.line_count = @ + 1,
                    !.is_return = @ \/ is_return,
                    !.customer_id = IF IsNone(@) /\ ~IsNone(customer_id)
                                    THEN customer_id ELSE @,
                    !.country = IF @ = "Unknown" /\ country # "Unknown"
                                THEN country ELSE @,
                    !.invoice_date = IF DateLt(@, invoice_date)
                                     THEN invoice_date ELSE @]]
        ELSE Append(invs,
                [invoice |-> invoice, customer_id |-> customer_id, country |-> country,
                 invoice_date |-> invoice_date, revenue |-> line_revenue,
                 is_return |-> is_return, line_count |-> 1])

\* a parsed line as the history keeps it
Line(invoice, stock_code, customer_id, qty, unit_price, invoice_date, country) ==
    [invoice |-> invoice, stock_code |-> stock_code, customer_id |-> customer_id,
     qty |-> qty, unit_price |-> unit_price, invoice_date |-> invoice_date,
     country |-> country]

----------------------------------------------------------------------------
(* main: start, and read_and_aggregate_invoices *)

\* the command line is the list of strings main receives.  A string is taken
\* apart with Len, SubSeq, Head and Tail; its characters are one-character
\* strings.

\* str.startswith
startswith(s, prefix) ==
    (Len(prefix) <= Len(s)) /\ (SubSeq(s, 1, Len(prefix)) = prefix)

\* the 1-based position of the first c in s, 0 when s has none
RECURSIVE FindFrom(_, _, _)
FindFrom(s, c, i) ==
    IF i > Len(s) THEN 0
    ELSE IF SubSeq(s, i, i) = c THEN i
    ELSE FindFrom(s, c, i + 1)

\* a decimal digit; the characters of the model's command lines are those
\* of Latin-1, whose only decimal digits are the ASCII ones
IsAsciiDigit(c) == \E d \in 0..9 : ToString(d) = c

\* \d* of a regular expression matching the whole of s
RECURSIVE AllDigits(_)
AllDigits(s) == (s = "") \/ (IsAsciiDigit(Head(s)) /\ AllDigits(Tail(s)))

\* the text without the white space int() skips at its two ends: the tab,
\* the line feed, the vertical tab, the form feed, the carriage return, the
\* space, the next-line character U+0085 and the no-break space U+00A0
RECURSIVE strip(_)
strip(s) ==
    LET whitespace == { "\t", "\n", "", "\f", "\r", " ", "", " " }
    IN  IF s = "" THEN s
        ELSE IF Head(s) \in whitespace THEN strip(Tail(s))
        ELSE IF SubSeq(s, Len(s), Len(s)) \in whitespace THEN strip(SubSeq(s, 1, Len(s) - 1))
        ELSE s

\* the rest of a decimal literal: digits, with single underscores between
\* digits only
RECURSIVE DecimalRest(_, _)
DecimalRest(s, after_digit) ==
    IF s = "" THEN after_digit
    ELSE IF IsAsciiDigit(Head(s)) THEN DecimalRest(Tail(s), TRUE)
    ELSE (Head(s) = "_") /\ after_digit /\ DecimalRest(Tail(s), FALSE)

IsDecimal(s) == (s # "") /\ IsAsciiDigit(Head(s)) /\ DecimalRest(Tail(s), TRUE)

RECURSIVE DecimalValue(_, _)
DecimalValue(s, acc) ==
    IF s = "" THEN acc
    ELSE IF Head(s) = "_" THEN DecimalValue(Tail(s), acc)
    ELSE DecimalValue(Tail(s),
                      10 * acc + (CHOOSE d \in 0..9 : ToString(d) = Head(s)))

\* a decimal literal after its sign
SignedDecimal(sign, digits) ==
    IF ~IsDecimal(digits) THEN None
    ELSE IF sign = "-" THEN Some(-DecimalValue(digits, 0))
    ELSE Some(DecimalValue(digits, 0))

\* int(text), the type of --max_offsets (line 626): white space around the
\* text is stripped and a sign may stand before the digits; None stands for
\* the ValueError
int(text) ==
    LET s == strip(text)
    IN  IF s # "" /\ Head(s) \in { "+", "-" } THEN SignedDecimal(Head(s), Tail(s))
        ELSE SignedDecimal("+", s)

\* lines 34-49
RAW_DEFAULT == "simulators/retail-retention/data/raw/online_retail_ii.csv"

OUT_DEFAULT == "simulators/retail-retention/data/processed"

\* the option strings of main's parser (lines 623-626, with the -h and --help
\* that add_help registers)
OptionStrings == { "-h", "--help", "--input", "--out", "--max_offsets" }

\* the destination of an option string's action; help takes no argument, the
\* others take one
ActionOf(option_string) ==
    IF option_string \in { "-h", "--help" } THEN "help"
    ELSE IF option_string = "--input" THEN "input"
    ELSE IF option_string = "--out" THEN "out"
    ELSE "max_offsets"

\* what _parse_optional makes of one string: a positional ("A"), an option
\* ("O": its action, "none" for an option the parser does not know, its
\* option string and the explicit argument written in the same string), or
\* the error of an ambiguous abbreviation (the pattern "error")
Positional ==
    [pattern |-> "A", action |-> "none", option_string |-> "", explicit_arg |-> None]

OptionTuple(action, option_string, explicit_arg) ==
    [pattern |-> "O", action |-> action, option_string |-> option_string,
     explicit_arg |-> explicit_arg]

\* ArgumentParser._get_option_tuples (allow_abbrev is left at True): a
\* string with two dashes is split at its first "=" (eq is its position, 0
\* when it has none) and stands for every option string that starts with
\* it; a string with one dash stands for the option string of its first two
\* characters, the rest being the explicit argument, and for every option
\* string that starts with the whole of it
_get_option_tuples(arg_string) ==
    LET eq == FindFrom(arg_string, "=", 1)
    IN  IF SubSeq(arg_string, 2, 2) = "-"
        THEN (IF eq > 0
              THEN { OptionTuple(ActionOf(o), o,
                                 Some(SubSeq(arg_string, eq + 1, Len(arg_string)))) :
                         o \in { x \in OptionStrings :
                                    startswith(x, SubSeq(arg_string, 1, eq - 1)) } }
              ELSE { OptionTuple(ActionOf(o), o, None) :
                         o \in { x \in OptionStrings : startswith(x, arg_string) } })
        ELSE { OptionTuple(ActionOf(o), o, Some(SubSeq(arg_string, 3, Len(arg_string)))) :
                   o \in { x \in OptionStrings : x = SubSeq(arg_string, 1, 2) } }
             \cup
             { OptionTuple(ActionOf(o), o, None) :
                   o \in { x \in OptionStrings :
                              x # SubSeq(arg_string, 1, 2) /\ startswith(x, arg_string) } }

\* '^-\d+$|^-\d*\.\d+$' matching the whole of s: dot is the position of the
\* first "." after the "-", 0 when there is none
NegativeNumber(s) ==
    LET dot == FindFrom(Tail(s), ".", 1)
    IN  /\ startswith(s, "-")
        /\ \/ (Tail(s) # "") /\ AllDigits(Tail(s))
           \/ /\ dot > 0
              /\ dot < Len(Tail(s))
              /\ AllDigits(SubSeq(Tail(s), 1, dot - 1))
              /\ AllDigits(SubSeq(Tail(s), dot + 1, Len(Tail(s))))

\* the parser's _negative_number_matcher, '^-\d+$|^-\d*\.\d+$': the $ also
\* matches before a newline that ends the string
_negative_number_matcher(arg_string) ==
    IF arg_string # "" /\ SubSeq(arg_string, Len(arg_string), Len(arg_string)) = "\n"
    THEN NegativeNumber(SubSeq(arg_string, 1, Len(arg_string) - 1))
    ELSE NegativeNumber(arg_string)

\* _parse_optional on a string that is no option string and has no option
\* string before an "=": the abbreviations option_tuples it may stand for
Abbreviation(arg_string, option_tuples) ==
    IF Cardinality(option_tuples) > 1 THEN [Positional EXCEPT !.pattern = "error"]
    ELSE IF Cardinality(option_tuples) = 1
    THEN CHOOSE option_tuple \in option_tuples : TRUE
    ELSE IF _negative_number_matcher(arg_string) THEN Positional
    ELSE IF FindFrom(arg_string, " ", 1) > 0 THEN Positional
    ELSE OptionTuple("none", arg_string, None)

\* _parse_optional on a string of two or more characters that starts with
\* "-" and is no option string: eq is the position of its first "="
SplitAtEquals(arg_string, eq) ==
    IF eq > 0 /\ SubSeq(arg_string, 1, eq - 1) \in OptionStrings
    THEN OptionTuple(ActionOf(SubSeq(arg_string, 1, eq - 1)), SubSeq(arg_string, 1, eq - 1),
                     Some(SubSeq(arg_string, eq + 1, Len(arg_string))))
    ELSE Abbreviation(arg_string, _get_option_tuples(arg_string))

\* ArgumentParser._parse_optional
_parse_optional(arg_string) ==
    IF arg_string = "" THEN Positional
    ELSE IF SubSeq(arg_string, 1, 1) # "-" THEN Positional
    ELSE IF arg_string \in OptionStrings
    THEN OptionTuple(ActionOf(arg_string), arg_string, None)
    ELSE IF Len(arg_string) = 1 THEN Positional
    ELSE SplitAtEquals(arg_string, FindFrom(arg_string, "=", 1))

\* the index of the first "--" of the line, Len(line) + 1 when it has none
RECURSIVE FirstDoubleDash(_, _)
FirstDoubleDash(line, i) ==
    IF i > Len(line) THEN i
    ELSE IF line[i] = "--" THEN i
    ELSE FirstDoubleDash(line, i + 1)

\* _parse_known_args, the loop that builds arg_strings_pattern: the first
\* "--" is the pattern "-", every string after it is an argument, a string
\* before it is what _parse_optional makes of it
Classified(line, i) ==
    IF i > FirstDoubleDash(line, 1) THEN Positional
    ELSE IF i = FirstDoubleDash(line, 1) THEN [Positional EXCEPT !.pattern = "-"]
    ELSE _parse_optional(line[i])

\* the empty list, the value _get_values gives an option whose one argument
\* is the string "--" (it removes the "--" and converts what is left); it is
\* written with two elements, which no Optional value has
EmptyList == << "[", "]" >>

\* consume_optional on a -h that has the explicit argument explicit_arg: the
\* help action takes no argument, so each character of explicit_arg has to
\* be a one-character option that takes none; TRUE when no ArgumentError
\* ('ignored explicit argument') is raised
RECURSIVE HelpCluster(_, _)
HelpCluster(option_string, explicit_arg) ==
    /\ SubSeq(option_string, 2, 2) # "-"
    /\ explicit_arg # ""
    /\ ("-" \o Head(explicit_arg)) \in OptionStrings
    /\ ActionOf("-" \o Head(explicit_arg)) = "help"
    /\ (Tail(explicit_arg) = "") \/ HelpCluster("-" \o Head(explicit_arg), Tail(explicit_arg))

\* parse_args ending the process with a status
Exit(status) == [exit |-> Some(status), input |-> None, out |-> None, max_offsets |-> None]

\* the command lines of the model
ArgvSet ==
    { << >>,
      << "--max", "0" >>,
      << "--max_offsets", "-1" >>,
      << "--help" >>,
      << "-hh" >>,
      << "-h5", "--help" >>,
      << "--max_offsets", "abc" >>,
      << "--bogus" >>,
      << "--bogus", "-h" >>,
      << "--m", "x", "--he" >>,
      << "--out", "--help" >>,
      << "--input=--" >>,
      << "--input", "x.csv", "--" >>,
      << "-h", "--=x" >> }

RECURSIVE ParseFrom(_, _, _, _)

\* take_action on an option with its one argument: _get_values gives the
\* empty list for the argument "--", the string for --input and --out, and
\* int(arg_string) for --max_offsets, whose ValueError exits 2
TakeAction(line, stop, namespace, extras, action, arg_string, value) ==
    IF arg_string = "--"
    THEN ParseFrom(line, stop, [namespace EXCEPT ![action] = EmptyList], extras)
    ELSE IF action # "max_offsets"
    THEN ParseFrom(line, stop, [namespace EXCEPT ![action] = Some(arg_string)], extras)
    ELSE IF IsNone(value) THEN Exit(2)
    ELSE ParseFrom(line, stop, [namespace EXCEPT ![action] = value], extras)

\* the string at start_index, which _parse_known_args classified as o: a
\* string that is no option of the parser is an extra; consume_optional takes
\* an option with its explicit argument or, when the next string is an
\* argument, with that
Consume(line, start_index, namespace, extras, o) ==
    IF o.pattern # "O" \/ o.action = "none"
    THEN ParseFrom(line, start_index + 1, namespace, TRUE)
    ELSE IF o.action = "help"
    THEN (IF IsNone(o.explicit_arg) THEN Exit(0)
          ELSE IF HelpCluster(o.option_string, TheVal(o.explicit_arg)) THEN Exit(0)
          ELSE Exit(2))
    ELSE IF ~IsNone(o.explicit_arg)
    THEN TakeAction(line, start_index + 1, namespace, extras, o.action,
                    TheVal(o.explicit_arg), int(TheVal(o.explicit_arg)))
    ELSE IF start_index < Len(line) /\ Classified(line, start_index + 1).pattern = "A"
    THEN TakeAction(line, start_index + 2, namespace, extras, o.action,
                    line[start_index + 1], int(line[start_index + 1]))
    ELSE Exit(2)

\* _parse_known_args from the string at start_index on: an option is consumed
\* with its argument, any other string is an extra.  The help action prints
\* the usage and exits 0 where it stands; an ArgumentError (an argument that
\* is missing, one that int() rejects, an explicit argument of help) exits 2
\* where it is raised; extras exit 2 once the whole line has been consumed
\* (parse_args, 'unrecognized arguments').  The outcome is the exit status,
\* or the namespace, where the last occurrence of an option wins.
ParseFrom(line, start_index, namespace, extras) ==
    IF start_index > Len(line)
    THEN (IF extras THEN Exit(2)
          ELSE [exit |-> None, input |-> namespace.input, out |-> namespace.out,
                max_offsets |-> namespace.max_offsets])
    ELSE Consume(line, start_index, namespace, extras, Classified(line, start_index))

\* ArgumentParser.parse_args(argv), line 627, on the namespace of the
\* defaults (lines 624-626): an ambiguous abbreviation before the first "--"
\* exits 2 before any option is consumed
parse_args(line) ==
    IF \E i \in 1..(FirstDoubleDash(line, 1) - 1) : _parse_optional(line[i]).pattern = "error"
    THEN Exit(2)
    ELSE ParseFrom(line, 1,
                   [input |-> Some(RAW_DEFAULT), out |-> Some(OUT_DEFAULT),
                    max_offsets |-> None],
                   FALSE)

Init ==
    /\ pc = "args"
    /\ csv_exists \in BOOLEAN
    /\ argv \in ArgvSet
    /\ args_max_offsets = None
    /\ nread = 0
    /\ raw = RawStats0
    /\ parse = ParseStats0
    /\ seen_row_hashes = {}
    /\ invoices = << >>
    /\ vi = 1
    /\ written = 0
    /\ files = {}
    /\ exit_code = None
    /\ data = None
    /\ lines = << >>
    /\ seg = None
    /\ warned = FALSE

\* main, lines 623-630: parse_args ends the process on the help option and
\* on a command line it rejects; os.path.abspath raises TypeError on an
\* input or output path that is the empty list, and the uncaught exception
\* ends the process with status 1
ParseArgs ==
    /\ pc = "args"
    /\ LET args == parse_args(argv)
       IN  IF ~IsNone(args.exit)
           THEN pc' = "done" /\ exit_code' = args.exit
                             /\ args_max_offsets' = args_max_offsets
           ELSE IF args.input = EmptyList \/ args.out = EmptyList
           THEN pc' = "done" /\ exit_code' = Some(1)
                             /\ args_max_offsets' = args_max_offsets
           ELSE pc' = "start" /\ exit_code' = exit_code
                              /\ args_max_offsets' = args.max_offsets
    /\ UNCHANGED << csv_exists, argv, nread, raw, parse, seen_row_hashes,
                    invoices, vi, written, files, data, lines, seg, warned >>

\* main, lines 632-639: the missing input returns 1
CheckInput ==
    /\ pc = "start"
    /\ IF csv_exists
       THEN pc' = "read" /\ exit_code' = exit_code
       ELSE pc' = "done" /\ exit_code' = Some(1)
    /\ UNCHANGED << csv_exists, argv, args_max_offsets, nread, raw, parse, seen_row_hashes,
                    invoices, vi, written, files, data, lines, seg, warned >>

\* read_row counting a row in raw_rows_seen before the test of its invoice id
\* and timestamp
read_row_CountsEveryRow(st, row) ==
    LET invoice == row.Invoice
        stock_code == row.StockCode
        country == IF row.Country = "" THEN "Unknown" ELSE row.Country
        qty == parse_int(row.Quantity)
        unit_price == parse_float(row.UnitPrice)
        invoice_date == parse_invoice_date(row.InvoiceDate)
        customer_id == normalize_customer_id(row.CustomerID)
        skip == [raw |-> st.raw, parse |-> st.parse,
                 seen_row_hashes |-> st.seen_row_hashes, invoices |-> st.invoices,
                 accepted |-> None, raised |-> FALSE]
    IN  IF invoice = << >> \/ row.InvoiceDate.form = "empty"
        THEN [skip EXCEPT !.parse = [@ EXCEPT !.raw_rows_seen = @ + 1]]
        ELSE IF Raises(qty)
        THEN [skip EXCEPT !.parse = [@ EXCEPT !.raw_rows_seen = @ + 1],
                          !.raised = TRUE]
        ELSE IF IsNone(qty) \/ IsNone(unit_price)
        THEN [skip EXCEPT !.parse = [@ EXCEPT !.raw_rows_seen = @ + 1,
                                              !.skipped_bad_numeric = @ + 1]]
        ELSE IF IsNone(invoice_date)
        THEN [skip EXCEPT !.parse = [@ EXCEPT !.raw_rows_seen = @ + 1,
                                              !.skipped_bad_date = @ + 1]]
        ELSE LET q == TheVal(qty)
                 u == TheVal(unit_price)
                 d == TheVal(invoice_date)
                 h == _stable_row_key_hash(invoice, stock_code, customer_id, q, u)
             IN  [raw |-> RawAfter(st.raw, st.seen_row_hashes, invoice, customer_id,
                                   q, u, d, h),
                  parse |-> [st.parse EXCEPT !.raw_rows_seen = @ + 1,
                                             !.parsed_rows = @ + 1],
                  seen_row_hashes |-> st.seen_row_hashes \cup {h},
                  invoices |-> FoldLine(st.invoices, invoice, customer_id, country,
                                        d, q, u),
                  accepted |-> Some(Line(invoice, stock_code, customer_id, q, u, d,
                                         country)),
                  raised |-> FALSE]

\* the body of the reader loop, lines 246-314, on the state st of the fold;
\* accepted holds the parsed line when the row is folded, raised is TRUE when
\* the body ends in an exception
read_row(st, row) ==
    LET invoice == row.Invoice
        stock_code == row.StockCode
        country == IF row.Country = "" THEN "Unknown" ELSE row.Country
        qty == parse_int(row.Quantity)
        unit_price == parse_float(row.UnitPrice)
        invoice_date == parse_invoice_date(row.InvoiceDate)
        customer_id == normalize_customer_id(row.CustomerID)
        skip == [raw |-> st.raw, parse |-> st.parse,
                 seen_row_hashes |-> st.seen_row_hashes, invoices |-> st.invoices,
                 accepted |-> None, raised |-> FALSE]
    IN  IF invoice = << >> \/ row.InvoiceDate.form = "empty"
        THEN skip
        ELSE IF Raises(qty)
        THEN [skip EXCEPT !.parse = [@ EXCEPT !.raw_rows_seen = @ + 1],
                          !.raised = TRUE]
        ELSE IF IsNone(qty) \/ IsNone(unit_price)
        THEN [skip EXCEPT !.parse = [@ EXCEPT !.raw_rows_seen = @ + 1,
                                              !.skipped_bad_numeric = @ + 1]]
        ELSE IF IsNone(invoice_date)
        THEN [skip EXCEPT !.parse = [@ EXCEPT !.raw_rows_seen = @ + 1,
                                              !.skipped_bad_date = @ + 1]]
        ELSE LET q == TheVal(qty)
                 u == TheVal(unit_price)
                 d == TheVal(invoice_date)
                 h == _stable_row_key_hash(invoice, stock_code, customer_id, q, u)
             IN  [raw |-> RawAfter(st.raw, st.seen_row_hashes, invoice, customer_id,
                                   q, u, d, h),
                  parse |-> [st.parse EXCEPT !.raw_rows_seen = @ + 1,
                                             !.parsed_rows = @ + 1],
                  seen_row_hashes |-> st.seen_row_hashes \cup {h},
                  invoices |-> FoldLine(st.invoices, invoice, customer_id, country,
                                        d, q, u),
                  accepted |-> Some(Line(invoice, stock_code, customer_id, q, u, d,
                                         country)),
                  raised |-> FALSE]

\* one iteration of the reader loop, lines 245-314; an exception leaves main
\* uncaught and the process exits 1
ReadRow(row) ==
    LET st == read_row([raw |-> raw, parse |-> parse,
                        seen_row_hashes |-> seen_row_hashes, invoices |-> invoices],
                       row)
    IN
    /\ pc = "read"
    /\ nread < MaxRows
    /\ nread' = nread + 1
    /\ raw' = st.raw
    /\ parse' = st.parse
    /\ seen_row_hashes' = st.seen_row_hashes
    /\ invoices' = st.invoices
    /\ lines' = IF IsNone(st.accepted) THEN lines ELSE Append(lines, TheVal(st.accepted))
    /\ IF st.raised
       THEN pc' = "done" /\ exit_code' = Some(1)
       ELSE pc' = pc /\ exit_code' = exit_code
    /\ UNCHANGED << csv_exists, argv, args_max_offsets, vi, written, files, data, seg, warned >>

Read == \E row \in RowSet : ReadRow(row)

----------------------------------------------------------------------------
(* Variant Builder: build_variant *)

period_fn(granularity, d) ==
    IF granularity = "month" THEN month_key(d) ELSE iso_week_key(d)

\* Survives taking only the "C" prefix of the id for a return
Survives_PrefixOnly(inv, include_returns, include_anon) ==
    /\ ~((~include_returns) /\ StartsWithC(inv.invoice))
    /\ ~(IsNone(inv.customer_id) /\ ~include_anon)

\* the filter of lines 345-350: the invoice is not skipped
Survives(inv, include_returns, include_anon) ==
    /\ ~((~include_returns) /\ inv.is_return)
    /\ ~(IsNone(inv.customer_id) /\ ~include_anon)

\* lines 348-353: the customer key of a surviving invoice
CustKey(inv) ==
    IF IsNone(inv.customer_id) THEN << "anon:" >> \o inv.invoice
    ELSE TheVal(inv.customer_id)

\* dict.get / setdefault on a function whose domain is the set of keys
Get(f, k, dflt) == IF k \in DOMAIN f THEN f[k] ELSE dflt

Put(f, k, v) == [x \in (DOMAIN f) \cup {k} |-> IF x = k THEN v ELSE f[x]]

EmptyMap == [x \in {} |-> 0]

Fold0 ==
    [customer_period |-> EmptyMap, customers |-> << >>, rows_after_filters |-> 0,
     inv_min |-> None, inv_max |-> None, customer_last_date_any |-> EmptyMap,
     customer_last_date_pos |-> EmptyMap, country_revenue |-> EmptyMap,
     inv_values_pos |-> << >>]

\* FoldInvoice with the cell of a customer and period set from the latest
\* invoice instead of accumulated
FoldInvoice_Overwrite(acc, inv, granularity) ==
    LET cust == CustKey(inv)
        period == period_fn(granularity, inv.invoice_date)
        d == inv.invoice_date
        cp == Get(acc.customer_period, cust, EmptyMap)
        cell == Get(cp, period, << 0, 0 >>)
        later(old) == IF DateLt(old, d) THEN d ELSE old
    IN  [customer_period |->
            Put(acc.customer_period, cust,
                Put(cp, period, << 1, inv.revenue >>)),
         customers |->
            IF cust \in DOMAIN acc.customer_period THEN acc.customers
            ELSE Append(acc.customers, cust),
         rows_after_filters |-> acc.rows_after_filters + inv.line_count,
         inv_min |-> IF IsNone(acc.inv_min) \/ DateLt(d, TheVal(acc.inv_min))
                     THEN Some(d) ELSE acc.inv_min,
         inv_max |-> IF IsNone(acc.inv_max) \/ DateLt(TheVal(acc.inv_max), d)
                     THEN Some(d) ELSE acc.inv_max,
         customer_last_date_any |->
            Put(acc.customer_last_date_any, cust,
                later(Get(acc.customer_last_date_any, cust, d))),
         customer_last_date_pos |->
            IF inv.revenue > 0
            THEN Put(acc.customer_last_date_pos, cust,
                     later(Get(acc.customer_last_date_pos, cust, d)))
            ELSE acc.customer_last_date_pos,
         country_revenue |->
            Put(acc.country_revenue, inv.country,
                Get(acc.country_revenue, inv.country, 0) + inv.revenue),
         inv_values_pos |->
            IF inv.revenue > 0 THEN Append(acc.inv_values_pos, inv.revenue)
            ELSE acc.inv_values_pos]

\* the body of the loop of lines 344-371 for one surviving invoice
FoldInvoice(acc, inv, granularity) ==
    LET cust == CustKey(inv)
        period == period_fn(granularity, inv.invoice_date)
        d == inv.invoice_date
        cp == Get(acc.customer_period, cust, EmptyMap)
        cell == Get(cp, period, << 0, 0 >>)
        later(old) == IF DateLt(old, d) THEN d ELSE old
    IN  [customer_period |->
            Put(acc.customer_period, cust,
                Put(cp, period, << cell[1] + 1, cell[2] + inv.revenue >>)),
         customers |->
            IF cust \in DOMAIN acc.customer_period THEN acc.customers
            ELSE Append(acc.customers, cust),
         rows_after_filters |-> acc.rows_after_filters + inv.line_count,
         inv_min |-> IF IsNone(acc.inv_min) \/ DateLt(d, TheVal(acc.inv_min))
                     THEN Some(d) ELSE acc.inv_min,
         inv_max |-> IF IsNone(acc.inv_max) \/ DateLt(TheVal(acc.inv_max), d)
                     THEN Some(d) ELSE acc.inv_max,
         customer_last_date_any |->
            Put(acc.customer_last_date_any, cust,
                later(Get(acc.customer_last_date_any, cust, d))),
         customer_last_date_pos |->
            IF inv.revenue > 0
            THEN Put(acc.customer_last_date_pos, cust,
                     later(Get(acc.customer_last_date_pos, cust, d)))
            ELSE acc.customer_last_date_pos,
         country_revenue |->
            Put(acc.country_revenue, inv.country,
                Get(acc.country_revenue, inv.country, 0) + inv.revenue),
         inv_values_pos |->
            IF inv.revenue > 0 THEN Append(acc.inv_values_pos, inv.revenue)
            ELSE acc.inv_values_pos]

\* the loop of lines 344-371 over invoices.items(), from item i on
RECURSIVE FoldInvoices(_, _, _, _, _, _)
FoldInvoices(invs, i, acc, granularity, include_returns, include_anon) ==
    IF i > Len(invs) THEN acc
    ELSE FoldInvoices(invs, i + 1,
            IF Survives(invs[i], include_returns, include_anon)
            THEN FoldInvoice(acc, invs[i], granularity)
            ELSE acc,
            granularity, include_returns, include_anon)

\* sorted(S) of a set of integers, as a sequence
RECURSIVE Sorted(_)
Sorted(S) == IF S = {} THEN << >> ELSE << SetMin(S) >> \o Sorted(S \ {SetMin(S)})

\* line 373
PeriodKeys(customer_period) ==
    Sorted(UNION { DOMAIN customer_period[c] : c \in DOMAIN customer_period })

\* line 376, 0-based as enumerate() numbers them
PeriodIndex(period_keys, p) == (CHOOSE i \in 1..Len(period_keys) : period_keys[i] = p) - 1

\* CohortIdx taking the latest qualifying period instead of the earliest
CohortIdx_Latest(per, period_keys) ==
    LET pos_idxs == { PeriodIndex(period_keys, p) :
                        p \in { q \in DOMAIN per : per[q][1] > 0 /\ per[q][2] > 0 } }
        any_idxs == { PeriodIndex(period_keys, p) :
                        p \in { q \in DOMAIN per : per[q][1] > 0 } }
    IN  IF pos_idxs # {} THEN SetMax(pos_idxs)
        ELSE IF any_idxs # {} THEN SetMax(any_idxs) ELSE 0

\* CohortIdx taking the first period with an order, whatever its revenue
CohortIdx_FirstOrder(per, period_keys) ==
    LET any_idxs == { PeriodIndex(period_keys, p) :
                        p \in { q \in DOMAIN per : per[q][1] > 0 } }
    IN  IF any_idxs # {} THEN SetMin(any_idxs) ELSE 0

\* lines 380-386 for one customer's cells
CohortIdx(per, period_keys) ==
    LET pos_idxs == { PeriodIndex(period_keys, p) :
                        p \in { q \in DOMAIN per : per[q][1] > 0 /\ per[q][2] > 0 } }
        any_idxs == { PeriodIndex(period_keys, p) :
                        p \in { q \in DOMAIN per : per[q][1] > 0 } }
    IN  IF pos_idxs # {} THEN SetMin(pos_idxs)
        ELSE IF any_idxs # {} THEN SetMin(any_idxs) ELSE 0

\* CohortsUsed listing every period index up to the latest cohort
CohortsUsed_UpToLatest(cohort_idx_by_customer) ==
    Sorted(0..SetMax({ cohort_idx_by_customer[c] : c \in DOMAIN cohort_idx_by_customer }))

\* line 388
CohortsUsed(cohort_idx_by_customer) ==
    Sorted({ cohort_idx_by_customer[c] : c \in DOMAIN cohort_idx_by_customer })

\* lines 392-393
Horizon(n_periods, cohorts_used, max_offsets) ==
    LET max_possible == Max2(0, (n_periods - 1) - SetMin(cohorts_used))
    IN  Min2(max_possible, Max2(1, max_offsets))

\* RetCountOf counting every cell with an order, whatever its revenue
RetCountOf_AnyOrder(per, period_keys, my_cidx, cidx, off) ==
    LET p == period_keys[cidx + off + 1]
    IN  IF my_cidx = cidx /\ p \in DOMAIN per /\ per[p][1] > 0 THEN 1 ELSE 0

\* the contribution of one customer to ret_counts[cidx][off], lines 404-412
RetCountOf(per, period_keys, my_cidx, cidx, off) ==
    LET p == period_keys[cidx + off + 1]
    IN  IF my_cidx = cidx /\ p \in DOMAIN per /\ per[p][1] > 0 /\ per[p][2] > 0
        THEN 1 ELSE 0

\* RevSumOf adding only the positive cell revenues, as rev_base does
RevSumOf_PositiveOnly(per, period_keys, my_cidx, cidx, off) ==
    LET p == period_keys[cidx + off + 1]
    IN  IF my_cidx = cidx /\ p \in DOMAIN per /\ per[p][2] > 0 THEN per[p][2] ELSE 0

\* the contribution of one customer to rev_sums[cidx][off], lines 404-413
RevSumOf(per, period_keys, my_cidx, cidx, off) ==
    LET p == period_keys[cidx + off + 1]
    IN  IF my_cidx = cidx /\ p \in DOMAIN per THEN per[p][2] ELSE 0

\* RevBaseOf adding the founding-period revenue of every member, whatever
\* its sign
RevBaseOf_AllMembers(per, period_keys, my_cidx, cidx) ==
    LET cohort_period_key == period_keys[my_cidx + 1]
    IN  IF my_cidx = cidx /\ my_cidx < Len(period_keys)
           /\ cohort_period_key \in DOMAIN per
        THEN per[cohort_period_key][2] ELSE 0

\* the contribution of one customer to rev_base[cidx], lines 415-419
RevBaseOf(per, period_keys, my_cidx, cidx) ==
    LET cohort_period_key == period_keys[my_cidx + 1]
    IN  IF my_cidx = cidx /\ my_cidx < Len(period_keys)
           /\ cohort_period_key \in DOMAIN per /\ per[cohort_period_key][2] > 0
        THEN per[cohort_period_key][2] ELSE 0

\* Pct without the min(100.0, ...) clamp
Pct_NoUpperClamp(num, den) ==
    IF num <= 0 THEN 0 ELSE round(float_mul(100, float_div(num, den)), 1)

\* round(max(0.0, min(100.0, 100.0 * (num / den))), 1) in tenths, den > 0:
\* the quotient is rounded to a float, its product with 100.0 is rounded to a
\* float again, and round() works on that float.  With num >= den the
\* quotient is at least 1.0 and min() returns 100.0.
Pct(num, den) ==
    IF num <= 0 THEN 0
    ELSE IF num >= den THEN 1000
    ELSE LET x == float_mul(100, float_div(num, den))
         IN  IF Whole(x) >= 100 THEN 1000 ELSE round(x, 1)

\* one cell of pct_counts, lines 426-432
PctCount(size, count) == IF size <= 0 THEN 0 ELSE Pct(count, size)

\* one cell of pct_revenue, lines 439-445
PctRevenue(base, rev_sum) == IF base <= 0 THEN 0 ELSE Pct(rev_sum, base)

\* lines 373-450 and 453-467 on the result of the fold
Cohorts(acc, max_offsets) ==
    LET customer_period == acc.customer_period
        customers == acc.customers
        period_keys == PeriodKeys(customer_period)
        cohort_idx_by_customer ==
            [c \in DOMAIN customer_period |-> CohortIdx(customer_period[c], period_keys)]
        cohorts_used == CohortsUsed(cohort_idx_by_customer)
        used == { cohorts_used[i] : i \in 1..Len(cohorts_used) }
        horizon == Horizon(Len(period_keys), used, max_offsets)
        offsets == [i \in 1..(horizon + 1) |-> i - 1]
        Sum[i \in 0..Len(customers), k \in {"size", "count", "sum", "base"},
            cidx \in used, off \in 0..horizon] ==
            IF i = 0 THEN 0
            ELSE LET c == customers[i]
                     per == customer_period[c]
                     mine == cohort_idx_by_customer[c]
                 IN  Sum[i - 1, k, cidx, off] +
                     ( CASE k = "size" -> Bump(mine = cidx)
                         [] k = "count" ->
                              IF cidx + off < Len(period_keys)
                              THEN RetCountOf(per, period_keys, mine, cidx, off) ELSE 0
                         [] k = "sum" ->
                              IF cidx + off < Len(period_keys)
                              THEN RevSumOf(per, period_keys, mine, cidx, off) ELSE 0
                         [] k = "base" -> RevBaseOf(per, period_keys, mine, cidx) )
        n == Len(customers)
        cohort_size == [c \in used |-> Sum[n, "size", c, 0]]
        ret_counts == [c \in used |-> [i \in 1..(horizon + 1) |-> Sum[n, "count", c, i - 1]]]
        rev_sums == [c \in used |-> [i \in 1..(horizon + 1) |-> Sum[n, "sum", c, i - 1]]]
        rev_base == [c \in used |-> Sum[n, "base", c, 0]]
        cohort_labels == [i \in 1..Len(cohorts_used) |-> period_keys[cohorts_used[i] + 1]]
        pct_counts ==
            [i \in 1..Len(cohorts_used) |->
                [j \in 1..(horizon + 1) |->
                    PctCount(cohort_size[cohorts_used[i]], ret_counts[cohorts_used[i]][j])]]
        pct_revenue ==
            [i \in 1..Len(cohorts_used) |->
                [j \in 1..(horizon + 1) |->
                    PctRevenue(rev_base[cohorts_used[i]], rev_sums[cohorts_used[i]][j])]]
    IN  [period_keys |-> period_keys,
         cohort_idx_by_customer |-> cohort_idx_by_customer,
         cohorts_used |-> cohorts_used,
         horizon |-> horizon,
         cohort_size |-> cohort_size,
         ret_counts |-> ret_counts,
         rev_sums |-> rev_sums,
         rev_base |-> rev_base,
         cohort_matrix |->
            [cohorts |-> cohort_labels, offsets |-> offsets, values |-> pct_counts],
         revenue_matrix |->
            [cohorts |-> cohort_labels, offsets |-> offsets, values |-> pct_revenue]]

\* CustMetrics counting only the orders of the cells with positive revenue
CustMetrics_PositiveOrders(acc, c) ==
    LET per == acc.customer_period[c]
        ps == Sorted(DOMAIN per)
        orders_total == SumSeq([i \in 1..Len(ps) |->
                                  IF per[ps[i]][2] > 0 THEN per[ps[i]][1] ELSE 0])
        revenue_total == SumSeq([i \in 1..Len(ps) |-> per[ps[i]][2]])
        max_date == TheVal(acc.inv_max)
        last_date == IF c \in DOMAIN acc.customer_last_date_pos
                     THEN acc.customer_last_date_pos[c]
                     ELSE Get(acc.customer_last_date_any, c, max_date)
    IN  [orders |-> orders_total, revenue |-> revenue_total,
         recency_days |-> Ordinal(max_date) - Ordinal(last_date)]

\* lines 458-467: the RFM inputs of one customer
CustMetrics(acc, c) ==
    LET per == acc.customer_period[c]
        ps == Sorted(DOMAIN per)
        orders_total == SumSeq([i \in 1..Len(ps) |-> per[ps[i]][1]])
        revenue_total == SumSeq([i \in 1..Len(ps) |-> per[ps[i]][2]])
        max_date == TheVal(acc.inv_max)
        last_date == IF c \in DOMAIN acc.customer_last_date_pos
                     THEN acc.customer_last_date_pos[c]
                     ELSE Get(acc.customer_last_date_any, c, max_date)
    IN  [orders |-> orders_total, revenue |-> revenue_total,
         recency_days |-> Ordinal(max_date) - Ordinal(last_date)]

----------------------------------------------------------------------------
(* RFM Segmenter *)

\* s with x put before the first element greater than x: s sorted stays sorted
RECURSIVE InsertAsc(_, _)
InsertAsc(s, x) ==
    IF s = << >> THEN << x >>
    ELSE IF x < Head(s) THEN << x >> \o s
    ELSE << Head(s) >> \o InsertAsc(Tail(s), x)

\* sorted(values) of a list of numbers
RECURSIVE SortedVals(_)
SortedVals(values) ==
    IF values = << >> THEN << >>
    ELSE InsertAsc(SortedVals(SubSeq(values, 1, Len(values) - 1)), values[Len(values)])

\* quintile_edges taking the cut points one position higher
quintile_edges_Ceil(values) ==
    LET vals == SortedVals(values)
        n == Len(vals)
    IN  IF n = 0 THEN << 0, 0, 0, 0 >>
        ELSE [j \in 1..4 |-> vals[((n - 1) * j + 4) \div 5 + 1]]

\* lines 171-180; int((n - 1) * 0.2 j) is the floor of (n - 1) j / 5 for the
\* list lengths of the model
quintile_edges(values) ==
    LET vals == SortedVals(values)
        n == Len(vals)
    IN  IF n = 0 THEN << 0, 0, 0, 0 >>
        ELSE [j \in 1..4 |-> vals[((n - 1) * j) \div 5 + 1]]

\* score_quintile counting the cut points the value reaches (>=)
score_quintile_Reach(value, edges) ==
    Max2(1, Min2(5, 1 + Cardinality({ i \in 1..Len(edges) : value >= edges[i] })))

\* lines 183-188
score_quintile(value, edges) ==
    Max2(1, Min2(5, 1 + Cardinality({ i \in 1..Len(edges) : value > edges[i] })))

\* segment_name with the rule of "Can't Lose" tested before that of "At Risk"
segment_name_CantLoseFirst(r, f) ==
    IF r >= 4 /\ f >= 4 THEN "Champions"
    ELSE IF f >= 4 /\ r >= 2 THEN "Loyal"
    ELSE IF r >= 4 /\ f \in {2, 3} THEN "Potential Loyalist"
    ELSE IF r = 5 /\ f = 1 THEN "New Customers"
    ELSE IF r = 4 /\ f = 1 THEN "Promising"
    ELSE IF r = 3 /\ f \in {2, 3} THEN "Need Attention"
    ELSE IF r = 2 /\ f \in {1, 2} THEN "About To Sleep"
    ELSE IF r = 1 /\ f >= 4 THEN "Can't Lose"
    ELSE IF r <= 2 /\ f >= 3 THEN "At Risk"
    ELSE IF r = 1 /\ f <= 2 THEN "Lost"
    ELSE "Others"

\* lines 473-494
segment_name(r, f) ==
    IF r >= 4 /\ f >= 4 THEN "Champions"
    ELSE IF f >= 4 /\ r >= 2 THEN "Loyal"
    ELSE IF r >= 4 /\ f \in {2, 3} THEN "Potential Loyalist"
    ELSE IF r = 5 /\ f = 1 THEN "New Customers"
    ELSE IF r = 4 /\ f = 1 THEN "Promising"
    ELSE IF r = 3 /\ f \in {2, 3} THEN "Need Attention"
    ELSE IF r = 2 /\ f \in {1, 2} THEN "About To Sleep"
    ELSE IF r <= 2 /\ f >= 3 THEN "At Risk"
    ELSE IF r = 1 /\ f >= 4 THEN "Can't Lose"
    ELSE IF r = 1 /\ f <= 2 THEN "Lost"
    ELSE "Others"

\* lines 502-506 for one customer's metrics m
ScoreCustomer(m, r_edges, f_edges, m_edges) ==
    LET r_worse == score_quintile(m.recency_days, r_edges)
        r == 6 - r_worse
        f == score_quintile(m.orders, f_edges)
    IN  [r_worse |-> r_worse, r |-> r, f |-> f,
         m |-> score_quintile(m.revenue, m_edges),
         segment |-> segment_name(r, f)]

\* the keys of a dict filled in the order of s: the first occurrences
RECURSIVE FirstOccurrences(_)
FirstOccurrences(s) ==
    IF s = << >> THEN << >>
    ELSE LET front == FirstOccurrences(SubSeq(s, 1, Len(s) - 1))
             x == s[Len(s)]
         IN  IF \E i \in 1..Len(front) : front[i] = x THEN front ELSE Append(front, x)

\* the sort key of a segment row, line 533
SegKeyLess(a, b) ==
    \/ a.revenue < b.revenue
    \/ (a.revenue = b.revenue /\ a.customers < b.customers)

\* s (sorted by descending key, stable) with the row x added after its equals
RECURSIVE InsertDesc(_, _)
InsertDesc(s, x) ==
    IF s = << >> THEN << x >>
    ELSE IF SegKeyLess(Head(s), x) THEN << x >> \o s
    ELSE << Head(s) >> \o InsertDesc(Tail(s), x)

\* list.sort(key=..., reverse=True): stable
RECURSIVE SortSegments(_)
SortSegments(rows) ==
    IF rows = << >> THEN << >>
    ELSE InsertDesc(SortSegments(SubSeq(rows, 1, Len(rows) - 1)), rows[Len(rows)])

\* round(x, k) of a float x that the model holds exactly: the count of 10^-k,
\* half-even on the exact value
RoundMoney(x, k) ==
    IF x >= 0 THEN RoundScaled(x, Unit, k) ELSE -RoundScaled(-x, Unit, k)

\* round(revenue / orders, 2), lines 519 and 528, in cents: the quotient is
\* rounded to a float before round() sees it
Aov(revenue, orders) ==
    IF revenue = 0 THEN 0
    ELSE LET cents == round(Scale(float_div(Abs(revenue), orders), -15), 2)
         IN  IF revenue > 0 THEN cents ELSE -cents

\* round((repeaters / customers) * 100.0, 1), lines 520 and 529, in tenths
RepeatRate(repeaters, customers) ==
    IF repeaters = 0 THEN 0
    ELSE round(float_mul(100, float_div(repeaters, customers)), 1)

\* lines 469-533: the scores of the customers and the segment table
Segments(customers, cust_metrics) ==
    LET n == Len(customers)
        r_edges == quintile_edges([i \in 1..n |-> cust_metrics[customers[i]].recency_days])
        f_edges == quintile_edges([i \in 1..n |-> cust_metrics[customers[i]].orders])
        m_edges == quintile_edges([i \in 1..n |-> cust_metrics[customers[i]].revenue])
        scores == [c \in DOMAIN cust_metrics |->
                      ScoreCustomer(cust_metrics[c], r_edges, f_edges, m_edges)]
        names == FirstOccurrences([i \in 1..n |-> scores[customers[i]].segment])
        of(sname) == { i \in 1..n : scores[customers[i]].segment = sname }
        total(sname, field) ==
            SumSeq([i \in 1..n |->
                      IF i \in of(sname) THEN cust_metrics[customers[i]][field] ELSE 0])
        row(sname) ==
            LET cnt == Cardinality(of(sname))
                repeaters == Cardinality({ i \in of(sname) :
                                             cust_metrics[customers[i]].orders >= 2 })
                revenue == total(sname, "revenue")
                orders == total(sname, "orders")
            IN  [segment |-> sname,
                 customers |-> cnt,
                 repeaters |-> repeaters,
                 orders |-> orders,
                 revenue |-> RoundMoney(revenue, 2),
                 aov |-> IF orders > 0 THEN Aov(revenue, orders) ELSE 0,
                 repeat_rate |-> IF cnt > 0 THEN RepeatRate(repeaters, cnt) ELSE 0]
    IN  [r_edges |-> r_edges, f_edges |-> f_edges, m_edges |-> m_edges,
         scores |-> scores,
         segments |-> SortSegments([i \in 1..Len(names) |-> row(names[i])])]

\* build_variant, lines 319-609: raised is TRUE when it raises a ValueError,
\* that of lines 327-328 for a granularity other than month and week or that
\* of line 375, whose message names the variant
build_variant(invs, r, granularity, include_returns, include_anon, max_offsets) ==
    LET acc == FoldInvoices(invs, 1, Fold0, granularity, include_returns, include_anon)
    IN  IF granularity \notin { "month", "week" }
        THEN [raised |-> TRUE,
              variant |-> << granularity, include_returns, include_anon >>]
        ELSE IF DOMAIN acc.customer_period = {}
        THEN [raised |-> TRUE,
              variant |-> << granularity, include_returns, include_anon >>]
        ELSE LET co == Cohorts(acc, max_offsets)
                 cm == [c \in DOMAIN acc.customer_period |-> CustMetrics(acc, c)]
                 sg == Segments(acc.customers, cm)
             IN  [raised |-> FALSE,
                  variant |-> << granularity, include_returns, include_anon >>,
                  meta |-> [variant |-> << granularity, include_returns, include_anon >>,
                            raw_rows |-> r.total_rows,
                            rows_after_filters |-> acc.rows_after_filters,
                            max_offsets |-> max_offsets],
                  sanity |-> [cancellations |-> r.cancellations_rows,
                              duplicates |-> r.duplicate_rows],
                  customer_period |-> acc.customer_period,
                  customers |-> acc.customers,
                  period_keys |-> co.period_keys,
                  cohort_idx_by_customer |-> co.cohort_idx_by_customer,
                  cohorts_used |-> co.cohorts_used,
                  horizon |-> co.horizon,
                  cohort_size |-> co.cohort_size,
                  rev_sums |-> co.rev_sums,
                  rev_base |-> co.rev_base,
                  cust_metrics |-> cm,
                  scores |-> sg.scores,
                  r_edges |-> sg.r_edges,
                  f_edges |-> sg.f_edges,
                  m_edges |-> sg.m_edges,
                  segments |-> sg.segments,
                  cohort_matrix |-> co.cohort_matrix,
                  revenue_matrix |-> co.revenue_matrix]

----------------------------------------------------------------------------
(* main: the checks after the read and the loop over the variants *)

\* the variants with the widest filter first
Variants_WidestFirst ==
    << << "month", TRUE, TRUE >>, << "month", TRUE, FALSE >>,
       << "month", FALSE, TRUE >>, << "month", FALSE, FALSE >>,
       << "week", TRUE, TRUE >>, << "week", TRUE, FALSE >>,
       << "week", FALSE, TRUE >>, << "week", FALSE, FALSE >> >>

\* the variants with include_anon = True before include_anon = False
Variants_AnonFirst ==
    << << "month", FALSE, TRUE >>, << "month", FALSE, FALSE >>,
       << "month", TRUE, TRUE >>, << "month", TRUE, FALSE >>,
       << "week", FALSE, TRUE >>, << "week", FALSE, FALSE >>,
       << "week", TRUE, TRUE >>, << "week", TRUE, FALSE >> >>

\* line 655
Variants ==
    << << "month", FALSE, FALSE >>, << "month", FALSE, TRUE >>,
       << "month", TRUE, FALSE >>, << "month", TRUE, TRUE >>,
       << "week", FALSE, FALSE >>, << "week", FALSE, TRUE >>,
       << "week", TRUE, FALSE >>, << "week", TRUE, TRUE >> >>

_default_max_offsets_for(granularity) == IF granularity = "month" THEN 12 ELSE 16

\* line 659
MaxOff(args, granularity) ==
    IF IsNone(args) THEN _default_max_offsets_for(granularity) ELSE TheVal(args)

TotalRevenue(invs) == SumSeq([i \in 1..Len(invs) |-> invs[i].revenue])

\* MatrixFilled taking a matrix with a 0.0 cell for an empty one
MatrixFilled_NoZeroCell(m) ==
    /\ (Len(m.cohorts) > 0) /\ (Len(m.offsets) > 0) /\ (Len(m.values) > 0)
    /\ \A i \in 1..Len(m.values) : \A j \in 1..Len(m.values[i]) : m.values[i][j] # 0

\* a truthy list: the test of line 672
MatrixFilled(m) == (Len(m.cohorts) > 0) /\ (Len(m.offsets) > 0) /\ (Len(m.values) > 0)

\* line 644-645: date_ok_ratio < 0.99, the ratio being 0.0 when no row was seen
LowRatio(p) ==
    IF p.raw_rows_seen = 0 THEN TRUE
    ELSE 100 * p.parsed_rows < 99 * p.raw_rows_seen

\* AfterRead without the test of the total revenue
AfterRead_NoRevenueTest ==
    /\ pc = "read"
    /\ IF raw.total_rows <= 0
       THEN pc' = "done" /\ exit_code' = Some(1)
       ELSE IF args_max_offsets = EmptyList
       THEN pc' = "done" /\ exit_code' = Some(1)
       ELSE pc' = "variants" /\ exit_code' = exit_code
    /\ vi' = 1
    /\ written' = 0
    /\ warned' = (raw.total_rows > 0 /\ LowRatio(parse))
    /\ UNCHANGED << csv_exists, argv, args_max_offsets, nread, raw, parse, seen_row_hashes,
                    invoices, files, data, lines, seg >>

\* AfterRead with the low parse ratio raising SystemExit instead of warning
AfterRead_FatalLowRatio ==
    /\ pc = "read"
    /\ IF raw.total_rows <= 0
       THEN pc' = "done" /\ exit_code' = Some(1)
       ELSE IF LowRatio(parse)
       THEN pc' = "done" /\ exit_code' = Some(1)
       ELSE IF Abs(TotalRevenue(invoices)) <= 0
       THEN pc' = "done" /\ exit_code' = Some(1)
       ELSE IF args_max_offsets = EmptyList
       THEN pc' = "done" /\ exit_code' = Some(1)
       ELSE pc' = "variants" /\ exit_code' = exit_code
    /\ vi' = 1
    /\ written' = 0
    /\ warned' = (raw.total_rows > 0 /\ LowRatio(parse))
    /\ UNCHANGED << csv_exists, argv, args_max_offsets, nread, raw, parse, seen_row_hashes,
                    invoices, files, data, lines, seg >>

\* main, lines 641-659: the reader is exhausted; SystemExit(message) exits 1,
\* and so does the uncaught TypeError of int(args.max_offsets) on the empty
\* list, which the loop raises before it builds its first variant
AfterRead ==
    /\ pc = "read"
    /\ IF raw.total_rows <= 0
       THEN pc' = "done" /\ exit_code' = Some(1)
       ELSE IF Abs(TotalRevenue(invoices)) <= 0
       THEN pc' = "done" /\ exit_code' = Some(1)
       ELSE IF args_max_offsets = EmptyList
       THEN pc' = "done" /\ exit_code' = Some(1)
       ELSE pc' = "variants" /\ exit_code' = exit_code
    /\ vi' = 1
    /\ written' = 0
    /\ warned' = (raw.total_rows > 0 /\ LowRatio(parse))
    /\ UNCHANGED << csv_exists, argv, args_max_offsets, nread, raw, parse, seen_row_hashes,
                    invoices, files, data, lines, seg >>

\* BuildAndWrite with build_variant deleting from the shared invoice map the
\* invoices that its filters skip
BuildAndWrite_ConsumesInvoices ==
    /\ pc = "variants"
    /\ vi <= Len(Variants)
    /\ data' = Some(build_variant(invoices, raw, Variants[vi][1], Variants[vi][2],
                                  Variants[vi][3],
                                  MaxOff(args_max_offsets, Variants[vi][1])))
    /\ invoices' = SelectSeq(invoices,
                             LAMBDA inv : Survives(inv, Variants[vi][2], Variants[vi][3]))
    /\ IF TheVal(data').raised
       THEN /\ pc' = "done" /\ exit_code' = Some(1)
            /\ UNCHANGED << vi, written, files >>
       ELSE IF ~(MatrixFilled(TheVal(data').cohort_matrix)
                 /\ MatrixFilled(TheVal(data').revenue_matrix))
       THEN /\ pc' = "done" /\ exit_code' = Some(1)
            /\ UNCHANGED << vi, written, files >>
       ELSE /\ files' = files \cup {Variants[vi]}
            /\ written' = written + 1
            /\ vi' = vi + 1
            /\ UNCHANGED << pc, exit_code >>
    /\ UNCHANGED << csv_exists, argv, args_max_offsets, nread, raw, parse, seen_row_hashes,
                    lines, seg, warned >>

\* one iteration of the loop of lines 658-678; an uncaught ValueError exits 1
BuildAndWrite ==
    /\ pc = "variants"
    /\ vi <= Len(Variants)
    /\ data' = Some(build_variant(invoices, raw, Variants[vi][1], Variants[vi][2],
                                  Variants[vi][3],
                                  MaxOff(args_max_offsets, Variants[vi][1])))
    /\ IF TheVal(data').raised
       THEN /\ pc' = "done" /\ exit_code' = Some(1)
            /\ UNCHANGED << vi, written, files >>
       ELSE IF ~(MatrixFilled(TheVal(data').cohort_matrix)
                 /\ MatrixFilled(TheVal(data').revenue_matrix))
       THEN /\ pc' = "done" /\ exit_code' = Some(1)
            /\ UNCHANGED << vi, written, files >>
       ELSE /\ files' = files \cup {Variants[vi]}
            /\ written' = written + 1
            /\ vi' = vi + 1
            /\ UNCHANGED << pc, exit_code >>
    /\ UNCHANGED << csv_exists, argv, args_max_offsets, nread, raw, parse, seen_row_hashes,
                    invoices, lines, seg, warned >>

\* main, lines 680-684
Finish ==
    /\ pc = "variants"
    /\ vi > Len(Variants)
    /\ pc' = "done"
    /\ exit_code' = IF written # Len(Variants) THEN Some(1) ELSE Some(0)
    /\ UNCHANGED << csv_exists, argv, args_max_offsets, nread, raw, parse, seen_row_hashes,
                    invoices, vi, written, files, data, lines, seg, warned >>

Next == ParseArgs \/ CheckInput \/ Read \/ AfterRead \/ BuildAndWrite \/ Finish

Spec == Init /\ [][Next]_vars

----------------------------------------------------------------------------
(* build_variant as a function of its arguments: any configuration and any   *)
(* cap, on the invoice map of any accepted lines                             *)

Granularities == { "month", "week" }

CapSet == { -1, 0, 1, 2, 12 }

InitBuild ==
    /\ pc = "read"
    /\ csv_exists = TRUE
    /\ argv = << >>
    /\ args_max_offsets = None
    /\ nread = 0
    /\ raw = RawStats0
    /\ parse = ParseStats0
    /\ seen_row_hashes = {}
    /\ invoices = << >>
    /\ vi = 1
    /\ written = 0
    /\ files = {}
    /\ exit_code = None
    /\ data = None
    /\ lines = << >>
    /\ seg = None
    /\ warned = FALSE

\* the rows of the input that the parse step accepts
AcceptedRows ==
    { row \in RowSet :
        ~IsNone(read_row([raw |-> RawStats0, parse |-> ParseStats0,
                          seen_row_hashes |-> {}, invoices |-> << >>], row).accepted) }

ReadLine == \E row \in AcceptedRows : ReadRow(row)

\* a call build_variant(invoices, raw, granularity, include_returns,
\* include_anon, max_offsets) on the finished invoice map
CallBuildVariant(granularity, include_returns, include_anon, max_offsets) ==
    /\ pc = "read"
    /\ pc' = "called"
    /\ data' = Some(build_variant(invoices, raw, granularity, include_returns,
                                  include_anon, max_offsets))
    /\ UNCHANGED << csv_exists, argv, args_max_offsets, nread, raw, parse, seen_row_hashes,
                    invoices, vi, written, files, exit_code, lines, seg, warned >>

Call ==
    \E g \in Granularities, r \in BOOLEAN, a \in BOOLEAN, m \in CapSet :
        CallBuildVariant(g, r, a, m)

NextBuild == ReadLine \/ Call

SpecBuild == InitBuild /\ [][NextBuild]_vars

----------------------------------------------------------------------------
(* The scoring of lines 469-506 as a function of the cut points and of one   *)
(* customer's metrics                                                        *)

\* cut points: what quintile_edges returns is a non-decreasing list of four
EdgeLists == { << 1, 2, 3, 4 >>, << 1, 1, 3, 3 >>, << 2, 2, 2, 2 >> }

RecencyValues == 0..5

\* each customer of a variant has at least one invoice
OrderValues == 1..5

InitSeg ==
    /\ pc = "score"
    /\ csv_exists = TRUE
    /\ argv = << >>
    /\ args_max_offsets = None
    /\ nread = 0
    /\ raw = RawStats0
    /\ parse = ParseStats0
    /\ seen_row_hashes = {}
    /\ invoices = << >>
    /\ vi = 1
    /\ written = 0
    /\ files = {}
    /\ exit_code = None
    /\ data = None
    /\ lines = << >>
    /\ seg = None
    /\ warned = FALSE

\* lines 469-471: the cut points of the variant
SetEdges(r_edges, f_edges, m_edges) ==
    /\ pc = "score"
    /\ seg = None
    /\ seg' = Some([r_edges |-> r_edges, f_edges |-> f_edges, m_edges |-> m_edges,
                    m |-> None, score |-> None])
    /\ UNCHANGED << pc, csv_exists, argv, args_max_offsets, nread, raw, parse, seen_row_hashes,
                    invoices, vi, written, files, exit_code, data, lines, warned >>

\* lines 501-506: one iteration of the loop over cust_metrics
ScoreOne(m) ==
    /\ pc = "score"
    /\ seg # None
    /\ seg' = Some([TheVal(seg) EXCEPT
                       !.m = Some(m),
                       !.score = Some(ScoreCustomer(m, TheVal(seg).r_edges,
                                                    TheVal(seg).f_edges,
                                                    TheVal(seg).m_edges))])
    /\ UNCHANGED << pc, csv_exists, argv, args_max_offsets, nread, raw, parse, seen_row_hashes,
                    invoices, vi, written, files, exit_code, data, lines, warned >>

Edges == \E re \in EdgeLists, fe \in EdgeLists : SetEdges(re, fe, << 0, 0, 0, 0 >>)

Score ==
    \E rec \in RecencyValues, ord \in OrderValues :
        ScoreOne([orders |-> ord, revenue |-> Money(30), recency_days |-> rec])

NextSeg == Edges \/ Score

SpecSeg == InitSeg /\ [][NextSeg]_vars

----------------------------------------------------------------------------
(* The outcome of the latest build_variant call *)

Returned == (~IsNone(data)) /\ (~TheVal(data).raised)

D == TheVal(data)

RECURSIVE SumSet(_, _)
SumSet(S, f) ==
    IF S = {} THEN 0
    ELSE LET x == CHOOSE y \in S : TRUE IN f[x] + SumSet(S \ {x}, f)

\* the customers of cohort row i of the variant data d
Members(d, i) ==
    { c \in DOMAIN d.customer_period : d.cohort_idx_by_customer[c] = d.cohorts_used[i] }

\* the customers of d assigned by the fallback rule: no cell with orders and
\* positive net revenue
Fallback(d) ==
    { c \in DOMAIN d.customer_period :
        \A p \in DOMAIN d.customer_period[c] : ~(d.customer_period[c][p][2] > 0) }

\* the period key of cohort row i
FoundingKey(d, i) == d.period_keys[d.cohorts_used[i] + 1]

----------------------------------------------------------------------------
(* C1 *)

\* C1: after any sequence of input rows the line counts of the InvoiceAgg
\* entries add up to the number of accepted lines, which is RawStats.total_rows
\* and ParseStats.parsed_rows.
C1_LineCounts ==
    /\ SumSeq([i \in 1..Len(invoices) |-> invoices[i].line_count]) = Len(lines)
    /\ raw.total_rows = Len(lines)
    /\ parse.parsed_rows = raw.total_rows

\* two lines folded into one invoice, and a rejected row
C1_Witness ==
    /\ \E i \in 1..Len(invoices) : invoices[i].line_count >= 2
    /\ parse.raw_rows_seen > parse.parsed_rows

----------------------------------------------------------------------------
(* C2 *)

\* C2 as stated: the cohort index of a customer is at most every period index
\* at which the customer has a cell with positive order count, whatever the
\* net revenue of that cell.
C2_Original ==
    Returned =>
        LET d == D IN
        \A c \in DOMAIN d.customer_period :
            \A p \in DOMAIN d.customer_period[c] :
                d.customer_period[c][p][1] > 0 =>
                    d.cohort_idx_by_customer[c] <= PeriodIndex(d.period_keys, p)

\* C2 amended: the cohort index of a customer is at most every period index at
\* which the customer has positive order count and positive net revenue; for a
\* customer with no such period it is at most every period index at which the
\* customer has positive order count.
C2_Amended ==
    Returned =>
        LET d == D IN
        \A c \in DOMAIN d.customer_period :
            \A p \in DOMAIN d.customer_period[c] :
                LET cell == d.customer_period[c][p] IN
                (cell[1] > 0 /\ (cell[2] > 0 \/ c \in Fallback(d))) =>
                    d.cohort_idx_by_customer[c] <= PeriodIndex(d.period_keys, p)

\* a customer whose first period of activity has no positive revenue and who
\* is assigned to a later period
C2_Witness ==
    Returned /\
        LET d == D IN
        \E c \in DOMAIN d.customer_period :
            \E p \in DOMAIN d.customer_period[c] :
                /\ d.customer_period[c][p][1] > 0
                /\ d.customer_period[c][p][2] <= 0
                /\ PeriodIndex(d.period_keys, p) < d.cohort_idx_by_customer[c]

\* cell (in tenths) is 100 num / den clamped to [0, 100] and rounded to one
\* decimal as binary64 arithmetic does it: the quotient and its product with
\* 100.0 are each rounded to the nearest float, and the tenth is the one
\* nearest to that float, so that cell is one of the two tenths around the
\* exact quotient; den > 0
RoundedPct(cell, num, den) ==
    IF num <= 0 THEN cell = 0
    ELSE IF num >= den THEN cell = 1000
    ELSE /\ cell = round(float_mul(100, float_div(num, den)), 1)
         /\ cell \in { ScaledDiv(num, den, 3)[1], ScaledDiv(num, den, 3)[1] + 1 }

----------------------------------------------------------------------------
(* C3 *)

\* C3 as stated: the offset-0 cell of the count matrix is 100.0 for every
\* emitted cohort row, cohorts with fallback-assigned customers included.
C3_Original ==
    Returned =>
        LET d == D IN
        \A i \in 1..Len(d.cohort_matrix.values) : d.cohort_matrix.values[i][1] = 1000

\* C3 amended: the offset-0 cell of the count matrix is 100.0 for every emitted
\* cohort row none of whose customers was assigned by the fallback rule; a
\* fallback-assigned customer is not counted at offset 0, so the cell of a
\* cohort with k such customers among its n is round(100.0 * ((n - k) / n), 1):
\* never above 100.0, and 0.0 when all its customers are fallback customers.
C3_Amended ==
    Returned =>
        LET d == D IN
        \A i \in 1..Len(d.cohort_matrix.values) :
            LET n == Cardinality(Members(d, i))
                k == Cardinality(Members(d, i) \cap Fallback(d))
                cell == d.cohort_matrix.values[i][1]
            IN  /\ n > 0
                /\ RoundedPct(cell, n - k, n)
                /\ (k = 0) => (cell = 1000)
                /\ (k = n) => (cell = 0)
                /\ cell <= 1000

\* a cohort row without fallback customers and a cohort row that mixes both
C3_Witness ==
    Returned /\
        LET d == D IN
        /\ \E i \in 1..Len(d.cohort_matrix.values) : Members(d, i) \cap Fallback(d) = {}
        /\ \E i \in 1..Len(d.cohort_matrix.values) :
              /\ Members(d, i) \cap Fallback(d) # {}
              /\ Members(d, i) \ Fallback(d) # {}

----------------------------------------------------------------------------
(* C4 *)

\* C4: every cell of the count matrix and of the revenue matrix lies in
\* [0, 100], also with negative revenues and with revenue at an offset above
\* the cohort's base revenue.
C4_CellsInRange ==
    Returned =>
        LET d == D IN
        \A i \in 1..Len(d.cohort_matrix.values) :
            \A j \in 1..Len(d.cohort_matrix.values[i]) :
                /\ d.cohort_matrix.values[i][j] \in 0..1000
                /\ d.revenue_matrix.values[i][j] \in 0..1000

\* a cohort whose revenue at a later offset exceeds its base revenue
C4_Witness ==
    Returned /\
        LET d == D IN
        \E i \in 1..Len(d.cohorts_used) :
            LET c == d.cohorts_used[i] IN
            \E j \in 2..(d.horizon + 1) :
                d.rev_base[c] > 0 /\ d.rev_sums[c][j] > d.rev_base[c]

----------------------------------------------------------------------------
(* C5 *)

\* the net revenue of cohort row i in its founding period, over all members
NetFounding(d, i) ==
    SumSet(Members(d, i),
           [c \in Members(d, i) |-> d.customer_period[c][FoundingKey(d, i)][2]])

\* C5: a cohort whose founding-period net revenue, summed over all members, is
\* zero or negative has 0.0 in the offset-0 cell of the revenue matrix, also
\* when some members have positive founding-period revenue.
C5_NetNonPositiveIsZero ==
    Returned =>
        LET d == D IN
        \A i \in 1..Len(d.revenue_matrix.values) :
            (\A c \in Members(d, i) : FoundingKey(d, i) \in DOMAIN d.customer_period[c])
            /\ (NetFounding(d, i) <= 0 => d.revenue_matrix.values[i][1] = 0)

\* a cohort with a member of positive founding revenue and net revenue <= 0
C5_Witness ==
    Returned /\
        LET d == D IN
        \E i \in 1..Len(d.revenue_matrix.values) :
            /\ NetFounding(d, i) <= 0
            /\ \E c \in Members(d, i) : d.customer_period[c][FoundingKey(d, i)][2] > 0

----------------------------------------------------------------------------
(* C6 *)

\* C6: a fatal condition occurs before any variant file is written: a run
\* that has written a file does not fail, and at process end either all 8
\* variant files were written by the run or none were.
C6_AllOrNothing ==
    /\ Cardinality(files) = written
    /\ (files # {}) => (exit_code # Some(1))
    /\ (pc = "done") => (written = 0 \/ written = Len(Variants))

\* a run of a usable dataset that ends with build_variant raising
C6_Witness ==
    /\ pc = "done"
    /\ exit_code = Some(1)
    /\ raw.total_rows > 0
    /\ TotalRevenue(invoices) # 0
    /\ (~IsNone(data)) /\ TheVal(data).raised

----------------------------------------------------------------------------
(* C7 *)

\* the filter of the variant leaves no invoice
EmptyFiltered(v) ==
    \A i \in 1..Len(invoices) : ~Survives(invoices[i], Variants[v][2], Variants[v][3])

\* parse_args returned a namespace: the command line neither asks for the
\* usage text nor is rejected
Parsed == IsNone(parse_args(argv).exit)

\* C7 (as stated): main exits 0 only when all 8 variant files have been
\* written, and exits non-zero when the input file does not exist, when no row
\* is accepted, when the invoice revenues add up to exactly zero, when a
\* variant has an empty filtered set, and when the number of written variants
\* differs from 8.
C7_Original ==
    (pc = "done") =>
        /\ (exit_code = Some(0)) =>
              (written = 8 /\ files = { Variants[v] : v \in 1..Len(Variants) })
        /\ (~csv_exists) => (exit_code # Some(0))
        /\ (Len(lines) = 0) => (exit_code # Some(0))
        /\ (TotalRevenue(invoices) = 0) => (exit_code # Some(0))
        /\ (\E v \in 1..Len(Variants) : EmptyFiltered(v)) => (exit_code # Some(0))
        /\ (written # 8) => (exit_code # Some(0))

\* C7 (amended): when parse_args returns a namespace, main exits 0 only when
\* all 8 variant files have been written and exits 1 in each fatal case of
\* the claim; when parse_args ends the process itself, the status is 0 for a
\* help option and 2 for a command line it rejects, with nothing read and
\* nothing written.
C7_ExitStatus ==
    (pc = "done") =>
        IF Parsed
        THEN /\ exit_code \in { Some(0), Some(1) }
             /\ (exit_code = Some(0)) =>
                   (written = 8 /\ files = { Variants[v] : v \in 1..Len(Variants) })
             /\ (~csv_exists) => (exit_code = Some(1))
             /\ (Len(lines) = 0) => (exit_code = Some(1))
             /\ (TotalRevenue(invoices) = 0) => (exit_code = Some(1))
             /\ (\E v \in 1..Len(Variants) : EmptyFiltered(v)) => (exit_code = Some(1))
             /\ (written # 8) => (exit_code = Some(1))
        ELSE /\ exit_code = parse_args(argv).exit
             /\ exit_code \in { Some(0), Some(2) }
             /\ (exit_code = Some(0)) =>
                   (\E i \in 1..Len(argv) : Classified(argv, i).action = "help")
             /\ nread = 0 /\ written = 0 /\ files = {}

\* a run whose accepted rows have revenues that cancel out
C7_Witness ==
    /\ pc = "done"
    /\ Parsed
    /\ exit_code = Some(1)
    /\ Len(lines) > 0
    /\ TotalRevenue(invoices) = 0
    /\ \A v \in 1..Len(Variants) : ~EmptyFiltered(v)

----------------------------------------------------------------------------
(* C8 *)

\* the invoice map without its return-flagged invoices
RECURSIVE WithoutReturns(_)
WithoutReturns(invs) ==
    IF invs = << >> THEN << >>
    ELSE IF Head(invs).is_return THEN WithoutReturns(Tail(invs))
    ELSE << Head(invs) >> \o WithoutReturns(Tail(invs))

CancelLines == { i \in 1..Len(lines) : StartsWithC(lines[i].invoice) }

ReturnLineCount ==
    SumSeq([i \in 1..Len(invoices) |->
                IF invoices[i].is_return THEN invoices[i].line_count ELSE 0])

\* C8: with include_returns = false the outcome of build_variant (cells,
\* cohorts, rows_after_filters, RFM figures) is the one it has on the invoice
\* map with every return-flagged invoice removed, while the raw statistics it
\* reports still count the lines of those invoices.
C8_ReturnsExcluded ==
    ((~IsNone(data)) /\ ~D.variant[2]) =>
        /\ D = build_variant(WithoutReturns(invoices), raw, D.variant[1], FALSE,
                             D.variant[3], IF D.raised THEN 0 ELSE D.meta.max_offsets)
        /\ (~D.raised) =>
              /\ D.meta.raw_rows = Len(lines)
              /\ D.sanity.cancellations = Cardinality(CancelLines)
              /\ D.meta.rows_after_filters <= D.meta.raw_rows - ReturnLineCount
              /\ \A i \in 1..Len(invoices) :
                    (invoices[i].is_return /\ IsNone(invoices[i].customer_id)) =>
                        (<< "anon:" >> \o invoices[i].invoice) \notin DOMAIN D.customer_period

\* a variant without returns built on a map that holds a "C" invoice and an
\* invoice flagged by a negative quantity
C8_Witness ==
    /\ Returned
    /\ ~D.variant[2]
    /\ \E i \in 1..Len(invoices) : invoices[i].is_return /\ StartsWithC(invoices[i].invoice)
    /\ \E i \in 1..Len(invoices) : invoices[i].is_return /\ ~StartsWithC(invoices[i].invoice)
    /\ D.meta.rows_after_filters < D.meta.raw_rows
    /\ D.sanity.cancellations > 0

----------------------------------------------------------------------------
(* C9 *)

\* the five fields of a line that the row key is made of; the unit price is
\* the float as it was parsed, the sign of a zero included
Tuple(l) == << l.invoice, l.stock_code, l.customer_id, l.qty, ToString(l.unit_price) >>

\* the row key of a line: the unit price enters it with four decimals
KeyOf(l) == _stable_row_key_hash(l.invoice, l.stock_code, l.customer_id, l.qty, l.unit_price)

InvoiceAt(invs, invoice) == invs[IndexOf(invs, invoice)]

\* the step accepts a line
Accepts == Len(lines') = Len(lines) + 1

\* the accepted line repeats the five fields of an earlier accepted line: the
\* duplicate counter grows by 1 and the line is folded once more
RepeatIsFolded ==
    LET l == lines'[Len(lines')] IN
    (\E i \in 1..Len(lines) : Tuple(lines[i]) = Tuple(l)) =>
        /\ raw'.duplicate_rows = raw.duplicate_rows + 1
        /\ InvoiceAt(invoices', l.invoice).revenue =
              InvoiceAt(invoices, l.invoice).revenue + l.qty * Numeric(l.unit_price)
        /\ InvoiceAt(invoices', l.invoice).line_count =
              InvoiceAt(invoices, l.invoice).line_count + 1

\* C9: a line with the same (invoice id, SKU, customer id, quantity, unit
\* price) as an earlier accepted line adds exactly 1 to duplicate_rows and is
\* folded again (the invoice's revenue grows by quantity x unit price, its
\* line_count by 1); duplicate_rows is the number of accepted lines minus the
\* number of distinct row keys, the row key being what _stable_row_key_hash
\* digests (it holds the unit price with four decimals).
C9_DuplicateRows ==
    [][Accepts =>
          /\ RepeatIsFolded
          /\ raw'.duplicate_rows =
                Len(lines') - Cardinality({ KeyOf(lines'[i]) : i \in 1..Len(lines') })
          /\ seen_row_hashes' = { KeyOf(lines'[i]) : i \in 1..Len(lines') }]_vars

\* an exact repeat of a line, and a line that differs from an earlier one only
\* beyond the fourth decimal of the unit price
C9_Witness ==
    /\ \E i, j \in 1..Len(lines) : i < j /\ Tuple(lines[i]) = Tuple(lines[j])
    /\ \E i, j \in 1..Len(lines) :
          i < j /\ Tuple(lines[i]) # Tuple(lines[j]) /\ KeyOf(lines[i]) = KeyOf(lines[j])
    /\ raw.duplicate_rows = 2

----------------------------------------------------------------------------
(* C10 *)

Jan2023 == month_key(MkDate(2023, 1, 1))

Mar2023 == month_key(MkDate(2023, 3, 1))

\* the month variant d holds customer A with one invoice of revenue 50 in
\* 2023-01 and one of revenue 30 in 2023-03 and nothing else, alone in the
\* cohort, under a cap that leaves room for the offsets 0, 1, 2
C10_Scenario(d) ==
    /\ d.variant[1] = "month"
    /\ d.meta.max_offsets >= 2
    /\ CustA \in DOMAIN d.customer_period
    /\ d.customer_period[CustA] =
          [p \in { Jan2023, Mar2023 } |->
              IF p = Jan2023 THEN << 1, Money(50) >> ELSE << 1, Money(30) >>]
    /\ \A c \in DOMAIN d.customer_period :
          d.cohort_idx_by_customer[c] = d.cohort_idx_by_customer[CustA] => c = CustA

\* the cohort row of customer A
C10_Row(d) ==
    CHOOSE i \in 1..Len(d.cohorts_used) :
        d.cohorts_used[i] = d.cohort_idx_by_customer[CustA]

\* C10: in the scenario the cohort is 2023-01, the count row is
\* [100.0, 0.0, 100.0] and the revenue row is [100.0, 0.0, 60.0] for the
\* offsets 0, 1, 2: the month without activity occupies offset 1.
C10_GapKeepsOffset ==
    (Returned /\ C10_Scenario(D)) =>
        LET i == C10_Row(D) IN
        /\ D.cohort_matrix.cohorts[i] = Jan2023
        /\ Len(D.cohort_matrix.offsets) >= 3
        /\ SubSeq(D.cohort_matrix.values[i], 1, 3) = << 1000, 0, 1000 >>
        /\ SubSeq(D.revenue_matrix.values[i], 1, 3) = << 1000, 0, 600 >>

----------------------------------------------------------------------------
(* C11 *)

\* C11: every cohort row of either matrix has at least one assigned customer
\* (no period with cohort size 0 is in the 'cohorts' list), and the cohort
\* sizes of the emitted rows add up to the number of customers of the
\* variant, each customer being in exactly one cohort.
C11_NoEmptyCohort ==
    Returned =>
        LET d == D
            rows == 1..Len(d.cohorts_used)
        IN
        /\ Len(d.cohort_matrix.cohorts) = Len(d.cohorts_used)
        /\ d.revenue_matrix.cohorts = d.cohort_matrix.cohorts
        /\ \A i \in rows :
              /\ d.cohort_size[d.cohorts_used[i]] >= 1
              /\ d.cohort_size[d.cohorts_used[i]] = Cardinality(Members(d, i))
              /\ d.cohort_matrix.cohorts[i] = FoundingKey(d, i)
        /\ \A i, j \in rows : (i # j) => (d.cohorts_used[i] # d.cohorts_used[j])
        /\ SumSeq([i \in rows |-> d.cohort_size[d.cohorts_used[i]]])
              = Cardinality(DOMAIN d.customer_period)
        /\ \A c \in DOMAIN d.customer_period :
              Cardinality({ i \in rows : c \in Members(d, i) }) = 1

\* a variant whose axis holds a period that founds no cohort: the earliest
\* period is nobody's cohort, and one cohort has two customers
C11_Witness ==
    /\ Returned
    /\ D.cohorts_used[1] > 0
    /\ Len(D.cohorts_used) < Len(D.period_keys)
    /\ \E i \in 1..Len(D.cohorts_used) : D.cohort_size[D.cohorts_used[i]] = 2

----------------------------------------------------------------------------
(* C13 *)

\* the parse step does not make a line of the row: the invoice id or the
\* timestamp is missing, the quantity or the unit price fails numeric parsing,
\* or the date is unparseable
FailsParse(row) ==
    \/ row.Invoice = << >>
    \/ row.InvoiceDate.form = "empty"
    \/ row.Quantity.kind \notin { "num", "negzero" }
    \/ row.UnitPrice.kind \notin { "num", "negzero" }
    \/ IsNone(parse_invoice_date(row.InvoiceDate))

ParseCounters(p) ==
    p.raw_rows_seen + p.parsed_rows + p.skipped_bad_numeric + p.skipped_bad_date

\* the row has the invoice id and the timestamp that line 254 asks for
Attempted(row) == (row.Invoice # << >>) /\ (row.InvoiceDate.form # "empty")

\* C13: a row that the parse step rejects is recovered locally: the step
\* raises nothing (the reader loop goes on), leaves every InvoiceAgg and every
\* RawStats field as it was, and adds to a statistics counter (asked here only
\* of the rows that have an invoice id and a timestamp).
C13_RejectsRecovered ==
    [][\A row \in RowSet :
          (ReadRow(row) /\ FailsParse(row)) =>
              /\ pc' = "read"
              /\ exit_code' = None
              /\ Attempted(row) => (ParseCounters(parse') > ParseCounters(parse))
              /\ invoices' = invoices
              /\ raw' = raw
              /\ lines' = lines]_vars

----------------------------------------------------------------------------
(* C14 *)

\* C14: the horizon of both matrices is min(max_offsets, (number of periods
\* - 1) - earliest used cohort index), also for max_offsets = 0, and the
\* offsets list is exactly 0..horizon (stated for the caps >= 0; a negative
\* cap is the case of C15).
C14_HorizonIsMin ==
    (Returned /\ D.meta.max_offsets >= 0) =>
        LET d == D
            h == Min2(d.meta.max_offsets, (Len(d.period_keys) - 1) - d.cohorts_used[1])
        IN
        /\ d.horizon = h
        /\ d.cohort_matrix.offsets = [i \in 1..(h + 1) |-> i - 1]
        /\ d.revenue_matrix.offsets = [i \in 1..(h + 1) |-> i - 1]
        /\ \A i \in 1..Len(d.cohorts_used) :
              /\ Len(d.cohort_matrix.values[i]) = h + 1
              /\ Len(d.revenue_matrix.values[i]) = h + 1

----------------------------------------------------------------------------
(* C15 *)

\* min(max_offsets, (number of periods - 1) - earliest used cohort index) of
\* variant v is negative: the second argument is never negative, so this is
\* a negative cap
NegativeHorizon(v) ==
    (args_max_offsets # EmptyList) /\ (MaxOff(args_max_offsets, v[1]) < 0)

\* C15: when the horizon of a variant would be negative the run fails loudly:
\* no file is written for that variant and the process ends non-zero.
C15_NegativeHorizonFatal ==
    /\ \A v \in files : ~NegativeHorizon(v)
    /\ (pc = "done" /\ \E i \in 1..Len(Variants) : NegativeHorizon(Variants[i]))
          => (exit_code = Some(1))

----------------------------------------------------------------------------
(* C16 *)

\* the invoices of the map without a customer id that survive the filter of
\* the variant d, and those with a customer id
AnonSurvivors(d) ==
    { i \in 1..Len(invoices) :
        IsNone(invoices[i].customer_id) /\ Survives(invoices[i], d.variant[2], d.variant[3]) }

NamedSurvivors(d) ==
    { i \in 1..Len(invoices) :
        (~IsNone(invoices[i].customer_id))
        /\ Survives(invoices[i], d.variant[2], d.variant[3]) }

\* the orders of customer c over all its cells
OrdersOf(d, c) ==
    SumSet(DOMAIN d.customer_period[c],
           [p \in DOMAIN d.customer_period[c] |-> d.customer_period[c][p][1]])

\* C16: with include_anon = true every invoice without a customer id is its
\* own pseudo-customer: no two of them share a customer key, none shares a key
\* with a real customer, and every pseudo-customer has exactly 1 order; with
\* include_anon = false no invoice without a customer id contributes to a cell.
C16_AnonUnique ==
    Returned =>
        LET d == D IN
        /\ d.variant[3] =>
              /\ \A i, j \in AnonSurvivors(d) :
                    (i # j) => (CustKey(invoices[i]) # CustKey(invoices[j]))
              /\ \A i \in AnonSurvivors(d) : \A j \in NamedSurvivors(d) :
                    CustKey(invoices[i]) # CustKey(invoices[j])
              /\ \A i \in AnonSurvivors(d) :
                    /\ CustKey(invoices[i]) \in DOMAIN d.customer_period
                    /\ OrdersOf(d, CustKey(invoices[i])) = 1
        /\ (~d.variant[3]) =>
              /\ AnonSurvivors(d) = {}
              /\ DOMAIN d.customer_period = { CustKey(invoices[j]) : j \in NamedSurvivors(d) }
              /\ SumSet(DOMAIN d.customer_period,
                        [c \in DOMAIN d.customer_period |-> OrdersOf(d, c)])
                    = Cardinality(NamedSurvivors(d))

----------------------------------------------------------------------------
(* C17 *)

\* the periods of one customer's cells with orders and positive net revenue,
\* and those with orders
PositivePeriods(per) == { p \in DOMAIN per : per[p][1] > 0 /\ per[p][2] > 0 }

OrderPeriods(per) == { p \in DOMAIN per : per[p][1] > 0 }

\* the number of periods of the axis before period p
Before(d, p) == Cardinality({ k \in 1..Len(d.period_keys) : d.period_keys[k] < p })

\* C17: each customer has exactly one cohort index: the smallest period index
\* whose cell has positive order count and positive net revenue, or, when
\* the customer has no such period, the smallest period index with positive
\* order count; it is determined by the customer's own cells and the axis.
C17_CohortRule ==
    Returned =>
        LET d == D IN
        /\ DOMAIN d.cohort_idx_by_customer = DOMAIN d.customer_period
        /\ \A c \in DOMAIN d.customer_period :
              LET per == d.customer_period[c]
                  S == IF PositivePeriods(per) # {} THEN PositivePeriods(per)
                       ELSE OrderPeriods(per)
              IN  /\ S # {}
                  /\ \E p \in S :
                        /\ \A q \in S : p <= q
                        /\ d.cohort_idx_by_customer[c] = Before(d, p)
                        /\ d.period_keys[d.cohort_idx_by_customer[c] + 1] = p

\* a customer assigned by the fallback rule next to a customer whose cohort
\* is later than its first period with an order
C17_Witness ==
    /\ Returned
    /\ Fallback(D) # {}
    /\ \E c \in DOMAIN D.customer_period :
          /\ c \notin Fallback(D)
          /\ \E p \in OrderPeriods(D.customer_period[c]) :
                Before(D, p) < D.cohort_idx_by_customer[c]

----------------------------------------------------------------------------
(* C18 *)

Labels11 ==
    { "Champions", "Loyal", "Potential Loyalist", "New Customers", "Promising",
      "Need Attention", "About To Sleep", "At Risk", "Can't Lose", "Lost", "Others" }

\* the rule table of segment_name in table order: the label of rule k and
\* its predicate
RuleLabel(k) ==
    << "Champions", "Loyal", "Potential Loyalist", "New Customers", "Promising",
       "Need Attention", "About To Sleep", "At Risk", "Can't Lose", "Lost" >>[k]

RuleHolds(k, r, f) ==
    CASE k = 1 -> r >= 4 /\ f >= 4
      [] k = 2 -> f >= 4 /\ r >= 2
      [] k = 3 -> r >= 4 /\ f \in {2, 3}
      [] k = 4 -> r = 5 /\ f = 1
      [] k = 5 -> r = 4 /\ f = 1
      [] k = 6 -> r = 3 /\ f \in {2, 3}
      [] k = 7 -> r = 2 /\ f \in {1, 2}
      [] k = 8 -> r <= 2 /\ f >= 3
      [] k = 9 -> r = 1 /\ f >= 4
      [] k = 10 -> r = 1 /\ f <= 2

FirstRule(r, f) ==
    LET holding == { k \in 1..10 : RuleHolds(k, r, f) }
    IN  IF holding = {} THEN "Others" ELSE RuleLabel(SetMin(holding))

\* a customer was scored
Scored == (seg # None) /\ (TheVal(seg).score # None)

\* C18: segment_name is total on the scores 1..5: a scored customer has
\* scores R, F in 1..5 and exactly one of the eleven labels, the label of the
\* first rule in table order that holds, 'Others' when none holds; and each
\* of the eleven labels is the label of at least one (R, F) pair.
C18_SegmentTable ==
    Scored =>
        LET sc == TheVal(TheVal(seg).score) IN
        /\ sc.r \in 1..5
        /\ sc.f \in 1..5
        /\ sc.segment \in Labels11
        /\ sc.segment = FirstRule(sc.r, sc.f)
        /\ \A lab \in Labels11 : \E r \in 1..5, f \in 1..5 : segment_name(r, f) = lab

----------------------------------------------------------------------------
(* C19 *)

\* the positions in the stream of the accepted lines of an invoice
LinesOf(invoice) == { i \in 1..Len(lines) : lines[i].invoice = invoice }

\* C19: each InvoiceAgg is the ordered fold of its lines: customer_id is the
\* first non-null customer id in stream order, country the first country
\* other than 'Unknown', invoice_date the latest line timestamp, revenue the
\* sum of quantity x unit price, and is_return holds iff the id starts with
\* 'C' or some line so far had a negative quantity (so a later line never
\* resets it).
C19_OrderedFold ==
    /\ { invoices[k].invoice : k \in 1..Len(invoices) } = { lines[i].invoice : i \in 1..Len(lines) }
    /\ \A k \in 1..Len(invoices) :
          LET inv == invoices[k]
              L == LinesOf(inv.invoice)
              named == { i \in L : ~IsNone(lines[i].customer_id) }
              located == { i \in L : lines[i].country # "Unknown" }
          IN
          /\ \A j \in 1..Len(invoices) : (j # k) => (invoices[j].invoice # inv.invoice)
          /\ inv.line_count = Cardinality(L)
          /\ inv.customer_id =
                IF named = {} THEN None ELSE lines[SetMin(named)].customer_id
          /\ inv.country =
                IF located = {} THEN "Unknown" ELSE lines[SetMin(located)].country
          /\ \E i \in L : lines[i].invoice_date = inv.invoice_date
          /\ \A i \in L : ~DateLt(inv.invoice_date, lines[i].invoice_date)
          /\ inv.revenue = SumSet(L, [i \in L |-> lines[i].qty * Numeric(lines[i].unit_price)])
          /\ inv.is_return <=>
                (StartsWithC(inv.invoice) \/ \E i \in L : lines[i].qty < 0)

\* an invoice whose first line has no customer id, no country, a negative
\* quantity and the latest timestamp, followed by a line with a customer id,
\* a country, a positive quantity and an earlier timestamp
C19_Witness ==
    \E k \in 1..Len(invoices) :
        LET inv == invoices[k]
            L == LinesOf(inv.invoice)
        IN
        /\ Cardinality(L) >= 2
        /\ IsNone(lines[SetMin(L)].customer_id) /\ ~IsNone(inv.customer_id)
        /\ lines[SetMin(L)].country = "Unknown" /\ inv.country # "Unknown"
        /\ lines[SetMin(L)].qty < 0 /\ lines[SetMax(L)].qty > 0
        /\ inv.is_return /\ ~StartsWithC(inv.invoice)
        /\ DateLt(lines[SetMax(L)].invoice_date, inv.invoice_date)

----------------------------------------------------------------------------
(* Revenue in binary64 arithmetic *)

\* the mantissa written as hexadecimal digits, most significant first
RECURSIVE FromHex(_)
FromHex(h) ==
    IF h = << >> THEN << >>
    ELSE MulNat(FromHex(SubSeq(h, 1, Len(h) - 1)), 16, h[Len(h)])

\* float(s) for the decimal texts of the model (line 119): the binary64 values
\* 0x1.999999999999ap-4, 0x1.999999999999ap-3 and 0x1.3333333333333p-2
float(s) ==
    CASE s = "0.1" -> [m |-> FromHex(<< 1, 9, 9, 9, 9, 9, 9, 9, 9, 9, 9, 9, 9, 10 >>),
                       e |-> -56]
      [] s = "0.2" -> [m |-> FromHex(<< 1, 9, 9, 9, 9, 9, 9, 9, 9, 9, 9, 9, 9, 10 >>),
                       e |-> -55]
      [] s = "0.3" -> [m |-> FromHex(<< 1, 3, 3, 3, 3, 3, 3, 3, 3, 3, 3, 3, 3, 3 >>),
                       e |-> -54]

PriceTexts == { "0.1", "0.2", "0.3" }

Quantities == 1..3

\* lines 291-314 for the lines of one invoice: revenue and line_count
FoldRevenue(invs, qty, price) ==
    LET line_revenue == float_mul(qty, float(price))
    IN  IF invs # << >>
        THEN << [invs[1] EXCEPT !.revenue = float_add(@, line_revenue),
                                !.line_count = @ + 1] >>
        ELSE << [invoice |-> << "1" >>, revenue |-> line_revenue, line_count |-> 1] >>

\* the fold of a whole stream of lines of one invoice
RECURSIVE FoldRevenueAll(_)
FoldRevenueAll(ls) ==
    IF ls = << >> THEN << >>
    ELSE FoldRevenue(FoldRevenueAll(SubSeq(ls, 1, Len(ls) - 1)),
                     ls[Len(ls)].qty, ls[Len(ls)].price)

InitFloat ==
    /\ pc = "sum"
    /\ csv_exists = TRUE
    /\ argv = << >>
    /\ args_max_offsets = None
    /\ nread = 0
    /\ raw = RawStats0
    /\ parse = ParseStats0
    /\ seen_row_hashes = {}
    /\ invoices = << >>
    /\ vi = 1
    /\ written = 0
    /\ files = {}
    /\ exit_code = None
    /\ data = None
    /\ lines = << >>
    /\ seg = None
    /\ warned = FALSE

\* one pass of the reader loop (lines 245-314) on an accepted line of the
\* invoice "1": SKU "SKU", customer 17850, 2023-01-10.  The row key holds
\* f"{unit_price:.4f}", the count of 0.0001 nearest to the float.
AddLine(qty, price) ==
    LET h == << << "1" >>, "SKU", CustA, qty, << FALSE, round(float(price), 4) >> >>
    IN
    /\ pc = "sum"
    /\ nread < MaxRows
    /\ nread' = nread + 1
    /\ parse' = [parse EXCEPT !.raw_rows_seen = @ + 1, !.parsed_rows = @ + 1]
    /\ raw' = [update_date_range(raw, MkDate(2023, 1, 10)) EXCEPT
                  !.total_rows = @ + 1,
                  !.duplicate_rows = @ + Bump(h \in seen_row_hashes)]
    /\ seen_row_hashes' = seen_row_hashes \cup {h}
    /\ lines' = Append(lines, [qty |-> qty, price |-> price])
    /\ invoices' = FoldRevenue(invoices, qty, price)
    /\ UNCHANGED << pc, csv_exists, argv, args_max_offsets, vi, written, files, exit_code,
                    data, seg, warned >>

NextFloat == \E qty \in Quantities, price \in PriceTexts : AddLine(qty, price)

SpecFloat == InitFloat /\ [][NextFloat]_vars

----------------------------------------------------------------------------
(* C20 *)

Reorderings(n) == { f \in [1..n -> 1..n] : \A i, j \in 1..n : (f[i] = f[j]) => (i = j) }

\* C20: for any permutation of the same accepted lines of an invoice the
\* aggregation yields the same revenue and the same line_count.
C20_OrderFree ==
    \A f \in Reorderings(Len(lines)) :
        FoldRevenueAll([i \in 1..Len(lines) |-> lines[f[i]]]) = invoices

----------------------------------------------------------------------------
(* C21 *)

\* 1 + the number of the four cut points that the value strictly exceeds
Exceeded(value, edges) == 1 + Cardinality({ i \in 1..4 : value > edges[i] })

\* C21: for every customer of a variant each raw quintile score is 1 + the
\* number of the four cut points the value strictly exceeds and lies in 1..5;
\* R = 6 - raw recency score lies in 1..5; a customer with fewer recency days
\* never has a lower R than one with more, and a customer with more orders
\* never has a lower F than one with fewer.
C21_QuintileScores ==
    Returned =>
        LET d == D IN
        /\ \A c \in DOMAIN d.scores :
              LET s == d.scores[c]
                  m == d.cust_metrics[c]
              IN  /\ s.r_worse = Exceeded(m.recency_days, d.r_edges)
                  /\ s.f = Exceeded(m.orders, d.f_edges)
                  /\ s.m = Exceeded(m.revenue, d.m_edges)
                  /\ s.r = 6 - s.r_worse
                  /\ { s.r_worse, s.r, s.f, s.m } \subseteq 1..5
        /\ \A c1, c2 \in DOMAIN d.scores :
              /\ (d.cust_metrics[c1].recency_days < d.cust_metrics[c2].recency_days)
                    => (d.scores[c1].r >= d.scores[c2].r)
              /\ (d.cust_metrics[c1].orders > d.cust_metrics[c2].orders)
                    => (d.scores[c1].f >= d.scores[c2].f)

\* a variant with a more recent customer of strictly higher R and a customer
\* with more orders of strictly higher F
C21_Witness ==
    Returned /\
        LET d == D IN
        /\ \E c1, c2 \in DOMAIN d.scores :
              /\ d.cust_metrics[c1].recency_days < d.cust_metrics[c2].recency_days
              /\ d.scores[c1].r > d.scores[c2].r
        /\ \E c1, c2 \in DOMAIN d.scores :
              /\ d.cust_metrics[c1].orders > d.cust_metrics[c2].orders
              /\ d.scores[c1].f > d.scores[c2].f

----------------------------------------------------------------------------
(* C22 *)

\* the net revenue of customer c in the period of index idx (0 when the
\* customer has no cell there or the index is past the last period)
RevenueAt(d, c, idx) ==
    IF idx < Len(d.period_keys) /\ d.period_keys[idx + 1] \in DOMAIN d.customer_period[c]
    THEN d.customer_period[c][d.period_keys[idx + 1]][2]
    ELSE 0

\* numerator of the cell of cohort row i at offset k
CellRevenue(d, i, k) ==
    SumSet(Members(d, i),
           [c \in Members(d, i) |-> RevenueAt(d, c, d.cohorts_used[i] + k)])

\* denominator: founding-period revenue of the members with a positive one
PositiveFounding(d, i) ==
    LET pos == { c \in Members(d, i) : RevenueAt(d, c, d.cohorts_used[i]) > 0 }
    IN  SumSet(pos, [c \in pos |-> RevenueAt(d, c, d.cohorts_used[i])])

\* cell (in tenths) is exactly 100 num / den clamped to [0, 100]
ExactPct(cell, num, den) ==
    IF num <= 0 THEN cell = 0
    ELSE IF num >= den THEN cell = 1000
    ELSE ScaledDiv(num, den, 3) = << cell, 0 >>

\* C22 as stated: for every cohort c and offset k within the horizon the
\* revenue-matrix cell equals 100 x (sum over the cohort's members of their
\* net revenue in period c+k) / (sum of the founding-period revenue of the
\* members whose founding-period revenue is positive), clamped to [0, 100];
\* the cell is 0 when that denominator is 0.
C22_Original ==
    Returned =>
        LET d == D IN
        \A i \in 1..Len(d.cohorts_used) :
            \A k \in 0..d.horizon :
                LET cell == d.revenue_matrix.values[i][k + 1]
                    den == PositiveFounding(d, i)
                IN  IF den = 0 THEN cell = 0
                    ELSE ExactPct(cell, CellRevenue(d, i, k), den)

\* C22 amended: the cell is that quotient, computed in binary64 arithmetic,
\* clamped to [0, 100] and rounded to one decimal; it is 0 when the
\* denominator is 0, and build_variant does not raise.
C22_Amended ==
    Returned =>
        LET d == D IN
        /\ Len(d.revenue_matrix.values) = Len(d.cohorts_used)
        /\ \A i \in 1..Len(d.cohorts_used) :
              /\ Len(d.revenue_matrix.values[i]) = d.horizon + 1
              /\ \A k \in 0..d.horizon :
                    LET cell == d.revenue_matrix.values[i][k + 1]
                        den == PositiveFounding(d, i)
                    IN  IF den = 0 THEN cell = 0
                        ELSE RoundedPct(cell, CellRevenue(d, i, k), den)

\* a cell whose quotient lies inside (0, 100) and is not a whole number of
\* tenths, in a cohort one of whose members has no positive founding revenue
C22_Witness ==
    Returned /\
        LET d == D IN
        \E i \in 1..Len(d.cohorts_used) :
            \E k \in 0..d.horizon :
                LET num == CellRevenue(d, i, k)
                    den == PositiveFounding(d, i)
                IN  /\ den > 0 /\ num > 0 /\ num < den
                    /\ ScaledDiv(num, den, 3)[2] # 0
                    /\ \E c \in Members(d, i) : RevenueAt(d, c, d.cohorts_used[i]) <= 0

\* a cohort none of whose members has positive founding-period revenue
C22_ZeroDenominator ==
    Returned /\
        LET d == D IN
        \E i \in 1..Len(d.cohorts_used) : PositiveFounding(d, i) = 0

----------------------------------------------------------------------------
(* C23 *)

\* the invoices of the map that pass the filters of the variant d
Surviving(d) ==
    { i \in 1..Len(invoices) :
        /\ d.variant[2] \/ ~invoices[i].is_return
        /\ d.variant[3] \/ ~IsNone(invoices[i].customer_id) }

\* the surviving invoices that fall into the cell of customer c and period p
InCell(d, c, p) ==
    { i \in Surviving(d) :
        /\ CustKey(invoices[i]) = c
        /\ period_fn(d.variant[1], invoices[i].invoice_date) = p }

\* all Customer-Period cells of d, as pairs << customer, period >>
Cells(d) ==
    { cp \in (DOMAIN d.customer_period) \X { d.period_keys[k] : k \in 1..Len(d.period_keys) } :
        cp[2] \in DOMAIN d.customer_period[cp[1]] }

\* C23: each invoice that survives the filters contributes to exactly one
\* customer and one period cell: every cell holds the count and the revenue of
\* the surviving invoices of its customer and period, the order counts of all
\* cells add up to the number of surviving invoices, the cell revenues to the
\* sum of their revenues, and rows_after_filters is the sum of their line
\* counts.
C23_OneCellPerInvoice ==
    Returned =>
        LET d == D
            S == Surviving(d)
        IN  /\ \A i \in S : Cardinality({ cp \in Cells(d) : i \in InCell(d, cp[1], cp[2]) }) = 1
            /\ \A cp \in Cells(d) :
                  LET here == InCell(d, cp[1], cp[2]) IN
                  /\ d.customer_period[cp[1]][cp[2]][1] = Cardinality(here)
                  /\ d.customer_period[cp[1]][cp[2]][2]
                        = SumSet(here, [i \in here |-> invoices[i].revenue])
            /\ SumSet(Cells(d), [cp \in Cells(d) |-> d.customer_period[cp[1]][cp[2]][1]])
                  = Cardinality(S)
            /\ SumSet(Cells(d), [cp \in Cells(d) |-> d.customer_period[cp[1]][cp[2]][2]])
                  = SumSet(S, [i \in S |-> invoices[i].revenue])
            /\ d.meta.rows_after_filters = SumSet(S, [i \in S |-> invoices[i].line_count])

\* a variant with a cell of two invoices and an invoice that the filters drop
C23_Witness ==
    Returned /\
        LET d == D IN
        /\ \E cp \in Cells(d) : Cardinality(InCell(d, cp[1], cp[2])) >= 2
        /\ Surviving(d) # 1..Len(invoices)

----------------------------------------------------------------------------
(* C24 *)

\* the invoice map that the accepted lines ls fold into
RECURSIVE InvoiceMapOf(_)
InvoiceMapOf(ls) ==
    IF ls = << >> THEN << >>
    ELSE LET l == ls[Len(ls)]
         IN  FoldLine(InvoiceMapOf(SubSeq(ls, 1, Len(ls) - 1)), l.invoice, l.customer_id,
                      l.country, l.invoice_date, l.qty, l.unit_price)

\* C24: a call of build_variant in main's loop leaves the invoice map and the
\* RawStats object as they were, and the variant it returns is the one
\* build_variant gives on the invoice map of the accepted lines, whichever
\* variants were computed before.
C24_BuildLeavesMap ==
    [][ (pc = "variants" /\ data' # data) =>
            /\ invoices' = invoices
            /\ raw' = raw
            /\ data' = Some(build_variant(InvoiceMapOf(lines'), raw', Variants[vi][1],
                                          Variants[vi][2], Variants[vi][3],
                                          MaxOff(args_max_offsets, Variants[vi][1])))
      ]_vars

\* several variants were built on a map that holds a return and an invoice
\* without a customer id, which only some of the variants keep
C24_Witness ==
    /\ pc = "variants"
    /\ written >= 2
    /\ \E i \in 1..Len(invoices) : invoices[i].is_return
    /\ \E i \in 1..Len(invoices) : IsNone(invoices[i].customer_id)

----------------------------------------------------------------------------
(* C25 *)

\* the step of main from the end of the read to its dataset-level checks
DatasetChecks == (pc = "read") /\ (pc' # "read") /\ (nread' = nread)

\* C25: a parse-success ratio below the tolerance only prints the warning and
\* the run goes on to the variants; the dataset-level checks abort the run
\* exactly when no row was accepted or the invoice revenues add up to exactly
\* zero.
C25_WarningOnly ==
    [][ DatasetChecks =>
            /\ (pc' = "done") <=> (Len(lines) = 0 \/ TotalRevenue(invoices) = 0)
            /\ (pc' = "done") => (exit_code' = Some(1))
            /\ (pc' # "done") => (pc' = "variants" /\ exit_code' = None)
            /\ (Len(lines) > 0 /\ 100 * parse.parsed_rows < 99 * parse.raw_rows_seen)
                  => warned'
            /\ warned' => (Len(lines) > 0 /\ 100 * parse.parsed_rows < 99 * parse.raw_rows_seen)
      ]_vars

\* a run that printed the warning and wrote all 8 variants
C25_Witness ==
    /\ warned
    /\ pc = "done"
    /\ exit_code = Some(0)
    /\ written = 8

----------------------------------------------------------------------------
(* C26 *)

\* the sum of a field over the rows of the segment table of d
SegmentTotal(d, field) == SumSeq([i \in 1..Len(d.segments) |-> d.segments[i][field]])

\* C26: the segment table is computed over exactly the customers of the
\* variant's cohorts: the 'customers' of its rows add up to the sum of the
\* cohort sizes, the 'orders' to the number of surviving invoices, and in every
\* row repeaters <= customers.
C26_SegmentTotals ==
    Returned =>
        LET d == D
            used == { d.cohorts_used[i] : i \in 1..Len(d.cohorts_used) }
        IN  /\ DOMAIN d.scores = DOMAIN d.customer_period
            /\ DOMAIN d.scores = UNION { Members(d, i) : i \in 1..Len(d.cohorts_used) }
            /\ SegmentTotal(d, "customers") = SumSet(used, d.cohort_size)
            /\ SegmentTotal(d, "customers") = Cardinality(DOMAIN d.customer_period)
            /\ SegmentTotal(d, "orders") = Cardinality(Surviving(d))
            /\ \A i \in 1..Len(d.segments) :
                  /\ d.segments[i].repeaters <= d.segments[i].customers
                  /\ d.segments[i].customers
                        = Cardinality({ c \in DOMAIN d.scores :
                                          d.scores[c].segment = d.segments[i].segment })
                  /\ d.segments[i].repeaters
                        = Cardinality({ c \in DOMAIN d.scores :
                                          /\ d.scores[c].segment = d.segments[i].segment
                                          /\ d.cust_metrics[c].orders >= 2 })

\* a variant with two cohorts and two segment rows, one with a repeater and
\* one without, and a customer whose only order has no positive revenue
C26_Witness ==
    Returned /\
        LET d == D IN
        /\ Len(d.cohorts_used) >= 2
        /\ \E i, j \in 1..Len(d.segments) :
              /\ d.segments[i].repeaters >= 1
              /\ d.segments[j].repeaters < d.segments[j].customers
        /\ Fallback(d) # {}

----------------------------------------------------------------------------
(* C27 *)

\* the invoices of the map that the filter (include_returns, include_anon) keeps
Kept(include_returns, include_anon) ==
    { i \in 1..Len(invoices) :
        /\ include_returns \/ ~invoices[i].is_return
        /\ include_anon \/ ~IsNone(invoices[i].customer_id) }

\* C27: the invoices that survive (include_returns = false, include_anon =
\* false) survive every other configuration, and main processes that
\* configuration first; so when any of the 8 variants has an empty filtered
\* set, the first build_variant call of the run raises and no file is written.
C27_NarrowestFirst ==
    /\ Variants[1][2] = FALSE /\ Variants[1][3] = FALSE
    /\ \A v \in 1..Len(Variants) : Kept(FALSE, FALSE) \subseteq Kept(Variants[v][2], Variants[v][3])
    /\ ( /\ pc \in { "variants", "done" }
         /\ ~IsNone(data)
         /\ \E v \in 1..Len(Variants) : Kept(Variants[v][2], Variants[v][3]) = {} )
       => ( /\ D.raised
            /\ D.variant = Variants[1]
            /\ pc = "done" /\ exit_code = Some(1)
            /\ vi = 1 /\ written = 0 /\ files = {} )

\* a run that failed on its first variant although other variants have
\* invoices left after their filters
C27_Witness ==
    /\ pc = "done"
    /\ ~IsNone(data)
    /\ D.raised
    /\ files = {}
    /\ Kept(FALSE, FALSE) = {}
    /\ Kept(FALSE, TRUE) # {}
    /\ Kept(TRUE, FALSE) # {}

----------------------------------------------------------------------------
(* C28 *)

\* C28: the rule r = 1 and f >= 4 ('Can't Lose') is shadowed by the earlier
\* rule r <= 2 and f >= 3 ('At Risk'): no scored customer is assigned 'Can't
\* Lose', a customer with r = 1 and f >= 4 is 'At Risk', and 'Others' is
\* assigned exactly for (R, F) = (3, 1).
C28_CantLoseShadowed ==
    /\ \A r \in 1..5, f \in 1..5 :
          /\ segment_name(r, f) # "Can't Lose"
          /\ (r = 1 /\ f >= 4) => (segment_name(r, f) = "At Risk")
          /\ (segment_name(r, f) = "Others") <=> (r = 3 /\ f = 1)
    /\ Scored =>
          LET sc == TheVal(TheVal(seg).score) IN
          /\ sc.segment # "Can't Lose"
          /\ (sc.r = 1 /\ sc.f >= 4) => (sc.segment = "At Risk")
          /\ (sc.segment = "Others") <=> (sc.r = 3 /\ sc.f = 1)

\* a scored customer that meets the rule of 'Can't Lose'
C28_Witness ==
    Scored /\
        LET sc == TheVal(TheVal(seg).score) IN
        sc.r = 1 /\ sc.f >= 4 /\ sc.segment = "At Risk"

\* a scored customer that no rule matches
C28_OthersReached ==
    Scored /\
        LET sc == TheVal(TheVal(seg).score) IN
        sc.r = 3 /\ sc.f = 1 /\ sc.segment = "Others"

----------------------------------------------------------------------------
(* C29 *)

BadNumeric(row) ==
    (row.Quantity.kind \in { "empty", "word" }) \/ (row.UnitPrice.kind \in { "empty", "word" })

BadDate(row) ==
    (row.InvoiceDate.form # "empty") /\ IsNone(parse_invoice_date(row.InvoiceDate))

\* C29: after every row the reader loop is done with, raw_rows_seen =
\* parsed_rows + skipped_bad_numeric + skipped_bad_date and RawStats.total_rows
\* = parsed_rows; a row with both a bad numeric field and a bad date is
\* counted only as skipped_bad_numeric, and a row missing its invoice id or
\* its date changes none of these counters.
C29_CountersBalance ==
    [][\A row \in RowSet :
          (ReadRow(row) /\ pc' = "read") =>
              /\ parse'.raw_rows_seen
                    = parse'.parsed_rows + parse'.skipped_bad_numeric + parse'.skipped_bad_date
              /\ raw'.total_rows = parse'.parsed_rows
              /\ (Attempted(row) /\ BadNumeric(row) /\ BadDate(row)) =>
                    /\ parse'.skipped_bad_numeric = parse.skipped_bad_numeric + 1
                    /\ parse'.skipped_bad_date = parse.skipped_bad_date
                    /\ parse'.parsed_rows = parse.parsed_rows
                    /\ parse'.raw_rows_seen = parse.raw_rows_seen + 1
              /\ (~Attempted(row)) => (parse' = parse /\ raw' = raw)
      ]_vars

\* rows of every kind were read: one without invoice id or date, one with a
\* bad numeric field and one with a bad date only
C29_Witness ==
    /\ pc = "read"
    /\ nread > parse.raw_rows_seen
    /\ parse.skipped_bad_numeric >= 1
    /\ parse.skipped_bad_date >= 1

----------------------------------------------------------------------------
(* C30 *)

\* the shape of the two matrices of a returned variant d
MatricesShaped(d) ==
    /\ d.cohort_matrix.cohorts # << >>
    /\ d.cohort_matrix.offsets # << >>
    /\ d.cohort_matrix.offsets[1] = 0
    /\ d.horizon >= 0
    /\ d.cohort_matrix.offsets = [i \in 1..(d.horizon + 1) |-> i - 1]
    /\ d.revenue_matrix.cohorts = d.cohort_matrix.cohorts
    /\ d.revenue_matrix.offsets = d.cohort_matrix.offsets
    /\ Len(d.cohort_matrix.values) = Len(d.cohort_matrix.cohorts)
    /\ Len(d.revenue_matrix.values) = Len(d.cohort_matrix.cohorts)
    /\ \A i \in 1..Len(d.cohort_matrix.cohorts) :
          /\ Len(d.cohort_matrix.values[i]) = d.horizon + 1
          /\ Len(d.revenue_matrix.values[i]) = d.horizon + 1

\* C30: whenever build_variant returns, both matrices have a non-empty cohorts
\* list, a non-empty offsets list starting at 0 and one value row of length
\* horizon + 1 per cohort, with the same cohorts and offsets in both; so main's
\* empty-matrix check never fires (a returned variant is written) and its
\* 'written != 8' check never fires (the loop ends with written = 8).
C30_ChecksNeverFire ==
    [][ /\ (data' # data /\ ~TheVal(data').raised) =>
              /\ MatricesShaped(TheVal(data'))
              /\ written' = written + 1
              /\ exit_code' = None
        /\ (pc = "variants" /\ pc' = "done" /\ data' = data) =>
              /\ written = 8
              /\ exit_code' = Some(0)
      ]_vars

\* a run with a negative cap that built and wrote all 8 variants, the last of
\* them with several cohorts
C30_Witness ==
    /\ pc = "done"
    /\ written = 8
    /\ args_max_offsets = Some(-1)
    /\ Returned
    /\ Len(D.cohort_matrix.cohorts) >= 2

====
